---------------------------- MODULE Spec2Model ----------------------------
(***************************************************************************)
(* A model of text_sequence_analyzer.ipynb: the Bluetooth log generator    *)
(* (BtDevice, BtLogGenerator, generate_bt_log), the windowing pipeline     *)
(* (to_dataset) and the anomaly scan (TextSequenceAnalyzer                 *)
(* .detect_anomalies).                                                     *)
(*                                                                         *)
(* Representation.  A log record is the string the notebook builds         *)
(* (f"{device_id}-{state_name}").  A text is the sequence of its records:  *)
(* generate_bt_log joins the records with "\n" and tokenize splits on      *)
(* "\n", and no record holds a line break.  Python indices are kept        *)
(* 0-based; a Python list is a TLA+ sequence, so list[i] is seq[i + 1].    *)
(***************************************************************************)
EXTENDS Integers, Sequences, FiniteSets, TLC

VARIABLES
  \* ---- Bluetooth log generator ----
  BT_STATE_TRANSITIONS, \* the module-level transition table (a dict of lists)
  generators,           \* the device list of each BtLogGenerator object
  gen_pc,               \* position of the generator: "unbuilt" (no BtLogGenerator yet),
                        \* "rejected" (its constructor raised), "idle", "stepping"
                        \* (inside generate_bt_log), "raised" (a step raised)
  gen_arg,              \* the generator object passed to the running generate_bt_log
  log_size,             \* the log_size argument of the running generate_bt_log
  device_states,        \* generate_bt_log's local device_states
  events,               \* the list the comprehension of generate_bt_log has built so far
  bt_log_data,          \* the records of the text generate_bt_log returned (<<>> while
                        \* the call is running)
  entry_state,          \* history: state_index of every device when generate_bt_log was entered
  taken,                \* history: the events of the __call__s of the running generate_bt_log
  n_steps,              \* history: __call__s made so far (bounded by MaxSteps)
  last_event,           \* history: for each device index of bt_log_gen, the state named
                        \* by its most recent event over all calls (None when no
                        \* event has named it)
  \* ---- sequence model and anomaly scan ----
  weights,              \* the parameters of sequence_model
  det_pc,               \* position inside detect_anomalies: "idle", "loop", "returned", "raised"
  text,                 \* the text argument of the running detect_anomalies
  token_ids,            \* detect_anomalies' local token_ids
  sequence,             \* detect_anomalies' local list object sequence
  predictions,          \* detect_anomalies' local predictions (None, or a probability vector)
  states,               \* detect_anomalies' local states (None, or a hidden state)
  predicted_token_ids,  \* detect_anomalies' local predicted_token_ids
  reports,              \* history: the calls of anomaly_detected_cb made by the running scan
  fed,                  \* history: the calls of sequence_model made by the running scan
  cb_raised,            \* history: anomaly_detected_cb raised in the running scan
  remembered,           \* history: the text and the reports of an earlier scan that returned
  \* ---- windowing ----
  SEQUENCE_LENGTH,      \* the configured window length
  BATCH_SIZE,           \* the configured batch size
  ds_pc,                \* position around to_dataset: "input", "built"
  ds_sequence,          \* the sequence argument of to_dataset
  ds_shuffle,           \* the shuffle argument of to_dataset
  dataset,              \* the dataset to_dataset returned: its batches, in order
  \* ---- train/validation split ----
  VALIDATION_SPLIT,     \* the configured holdout size
  bt_log_sequence,      \* the token ids of the generated log
  split_pc,             \* position in the dataset cell: "input", "train_built", "built"
  train_sequence,       \* history: the sequence passed to the to_dataset of train_ds
  valid_sequence,       \* history: the sequence passed to the to_dataset of valid_ds
  train_ds,             \* the training dataset: its batches, in order
  valid_ds,             \* the validation dataset: its batches, in order
  \* ---- training ----
  EARLY_STOP_PATIENCE,  \* the configured patience of early_stop_cb
  EPOCHS,               \* the configured maximum number of passes
  fit_pc,               \* position of sequence_model.fit: "idle", "running", "ended"
  epoch,                \* passes completed by the running fit
  val_loss,             \* history.history["val_loss"]: the loss after each pass
  params,               \* the parameters sequence_model holds: the pass of this fit
                        \* that produced them, 0 for those it had when fit was called
  stop_training,        \* sequence_model.stop_training
  wait,                 \* early_stop_cb.wait
  best,                 \* early_stop_cb.best (None for infinity)
  best_weights,         \* early_stop_cb.best_weights (None, or a pass's parameters)
  best_epoch,           \* early_stop_cb.best_epoch
  stopped_epoch,        \* early_stop_cb.stopped_epoch
  \* ---- the notebook's cells ----
  BT_LOG_SIZE,          \* the configured log size
  nb_pc,                \* the cell to run next: "log", "dataset", "model", "train",
                        \* "analyzer", "test", "corrective", "incremental"
  vocabulary,           \* text_vectorizer's vocabulary (None before adapt)
  adapt_calls,          \* history: the number of text_vectorizer.adapt calls
  analyzer,             \* text_sequence_analyzer (None before its cell): the vocabulary
                        \* of its text_vectorizer; its sequence_model is sequence_model
  model_file,           \* text_sequence_analyzer.keras (None when there is no file):
                        \* the vocabulary and the parameters saved
  train_calls,          \* history: the calls of train, with the stage of each and
                        \* whether the model file existed at that moment
  cycles,               \* history: the number of incremental cells run
  last_test,            \* history: the latest test_for_anomalies (None before the
                        \* first): the cell that ran it, the log it generated, and
                        \* the vocabulary and the parameters of the analyzer passed
  on_anomaly_detected   \* what the callback bound to on_anomaly_detected does when
                        \* it is called: "prints" (the notebook's) or "raises"

gen_vars == <<BT_STATE_TRANSITIONS, generators, gen_pc, gen_arg, log_size,
              device_states, events, bt_log_data, entry_state, taken, n_steps,
              last_event>>

det_vars == <<weights, det_pc, text, token_ids, sequence, predictions, states,
              predicted_token_ids, reports, fed, cb_raised, remembered>>

ds_vars == <<SEQUENCE_LENGTH, BATCH_SIZE, ds_pc, ds_sequence, ds_shuffle, dataset>>

split_vars == <<VALIDATION_SPLIT, bt_log_sequence, split_pc, train_sequence,
                valid_sequence, train_ds, valid_ds>>

fit_vars == <<EARLY_STOP_PATIENCE, EPOCHS, fit_pc, epoch, val_loss, params,
              stop_training, wait, best, best_weights, best_epoch, stopped_epoch>>

nb_vars == <<BT_LOG_SIZE, nb_pc, vocabulary, adapt_calls, analyzer, model_file,
             train_calls, cycles, last_test,
                 on_anomaly_detected>>

\* what the generator, the anomaly scan, to_dataset, the dataset cell and fit each
\* leave alone
rest_of_gen   == <<det_vars, ds_vars, split_vars, fit_vars, nb_vars>>
rest_of_det   == <<gen_vars, ds_vars, split_vars, fit_vars, nb_vars>>
rest_of_ds    == <<gen_vars, det_vars, split_vars, fit_vars, nb_vars>>
rest_of_split == <<gen_vars, det_vars, ds_vars, fit_vars, nb_vars>>
rest_of_fit   == <<gen_vars, det_vars, ds_vars, split_vars, nb_vars>>

-----------------------------------------------------------------------------
(* Bounds of the model *)

\* longest text (in records) passed to detect_anomalies
MaxTextLen == 3
\* most events of a generated log passed to detect_anomalies
MaxGeneratedEvents == 1
\* longest token sequence passed to to_dataset
MaxTokens == 7
\* largest configured SEQUENCE_LENGTH
MaxSequenceLength == 2
\* largest configured BATCH_SIZE
MaxBatchSize == 2

\* largest configured BT_LOG_SIZE of a run of the notebook's cells
MaxNotebookLogSize == 1
\* incremental cells run in one session
MaxCycles == 1

\* largest configured EPOCHS
MaxEpochs == 4
\* largest configured EARLY_STOP_PATIENCE
MaxPatience == 2
\* largest validation loss (losses are 1..MaxLoss)
MaxLoss == 3

\* longest token sequence windowed under a configuration that may be in error
MaxConfigTokens == 3
\* longest token sequence split into training and validation
MaxSplitTokens == 5
\* largest configured VALIDATION_SPLIT
MaxValidationSplit == 3

\* __call__s taken over one behaviour
MaxSteps == 6
\* largest log_size passed to generate_bt_log
MaxLogSize == 2
\* the largest probability (hundredths) an under-trained sequence_model leaves on
\* a token its training logs never showed
MaxResidual == 3

-----------------------------------------------------------------------------
(* Configuration *)

BT_DEVICE_COUNT == 3

BT_STATE_NAMES ==
  <<"unknown", "discovery", "pairing", "disconnected", "connected",
    "connected_hf", "call_app">>

\* A first table that already allows call_app -> disconnected
TransitionsAllowingCallAppDisconnected ==
  [s \in {BT_STATE_NAMES[i] : i \in 1..Len(BT_STATE_NAMES)} |->
    CASE s = "unknown"      -> <<"discovery">>
      [] s = "discovery"    -> <<"unknown", "pairing">>
      [] s = "pairing"      -> <<"connected", "unknown">>
      [] s = "disconnected" -> <<"connected", "unknown">>
      [] s = "connected"    -> <<"disconnected", "connected_hf">>
      [] s = "connected_hf" -> <<"disconnected", "connected", "call_app">>
      [] s = "call_app"     -> <<"connected", "connected_hf", "disconnected">>]

\* BT_STATE_TRANSITIONS as the first cell sets it
InitialTransitions ==
  [s \in {BT_STATE_NAMES[i] : i \in 1..Len(BT_STATE_NAMES)} |->
    CASE s = "unknown"      -> <<"discovery">>
      [] s = "discovery"    -> <<"unknown", "pairing">>
      [] s = "pairing"      -> <<"connected", "unknown">>
      [] s = "disconnected" -> <<"connected", "unknown">>
      [] s = "connected"    -> <<"disconnected", "connected_hf">>
      [] s = "connected_hf" -> <<"disconnected", "connected", "call_app">>
      [] s = "call_app"     -> <<"connected", "connected_hf">>]

-----------------------------------------------------------------------------
(* Python helpers *)

Range(seq) == {seq[i] : i \in 1..Len(seq)}

\* list.count(x)
Count(seq, x) == Cardinality({i \in 1..Len(seq) : seq[i] = x})

\* list.index(x): the first position holding x, 0-based (the caller checks membership;
\* Python raises ValueError otherwise)
Index(seq, x) == (CHOOSE i \in 1..Len(seq) :
                    seq[i] = x /\ \A j \in 1..(i - 1) : seq[j] # x) - 1

\* str(n) for the small integers the model formats
IntStr(n) ==
  CASE n = 0 -> "0" [] n = 1 -> "1" [] n = 2 -> "2" [] n = 3 -> "3"
    [] n = 4 -> "4" [] n = 5 -> "5" [] n = 6 -> "6" [] n = 7 -> "7"
    [] n = 8 -> "8" [] n = 9 -> "9"

-----------------------------------------------------------------------------
(* BtDevice, BtLogGenerator *)

GeneratorNames == {"bt_log_gen", "fresh"}

\* BtDevice(id): state_index defaults to BT_STATE_NAMES.index("unknown")
BtDevice(id) == [id |-> id, state_index |-> Index(BT_STATE_NAMES, "unknown")]

\* new_bt_log_gen(): the device list of the generator it constructs
new_bt_log_gen == [i \in 1..BT_DEVICE_COUNT |-> BtDevice(i - 1)]

\* A device list whose ids are not the positions: [BtDevice(1), BtDevice(0)]
RenumberedDevices == <<BtDevice(1), BtDevice(0)>>

\* BtLogGenerator._state_repr
_state_repr(device_id, state_name) == IntStr(device_id) \o "-" \o state_name

\* The device index and the state name a record f"{device_id}-{state_name}" carries
EventParse ==
  LET pairs == (0..(BT_DEVICE_COUNT - 1)) \X Range(BT_STATE_NAMES)
  IN  [e \in {_state_repr(p[1], p[2]) : p \in pairs} |->
         CHOOSE p \in pairs : e = _state_repr(p[1], p[2])]
EventDeviceId(e) == EventParse[e][1]
EventStateName(e) == EventParse[e][2]

\* BtLogGenerator.device_states, on a device list
DeviceStatesOf(device_list) ==
  [i \in 1..Len(device_list) |->
     _state_repr(device_list[i].id, BT_STATE_NAMES[device_list[i].state_index + 1])]

\* A _pick_new_state that draws from all of BT_STATE_NAMES instead of the table's list
PickAnyState(transitions, state_index) ==
  { <<k - 1, BT_STATE_NAMES[k]>> : k \in 1..Len(BT_STATE_NAMES) }

\* BtLogGenerator._pick_new_state: the (index, name) pairs random.choice may yield
\* under the table `transitions`; none when the table has no entry for the state
\* (KeyError), when the list is empty (IndexError) and for a name that
\* BT_STATE_NAMES.index does not find (ValueError)
_pick_new_state(transitions, state_index) ==
  LET state_name == BT_STATE_NAMES[state_index + 1]
      new_states == IF state_name \in DOMAIN transitions
                    THEN transitions[state_name] ELSE <<>>
  IN  { <<Index(BT_STATE_NAMES, new_states[k]), new_states[k]>> :
          k \in {j \in 1..Len(new_states) : new_states[j] \in Range(BT_STATE_NAMES)} }


-----------------------------------------------------------------------------
(* The generator's operations *)

\* BtLogGenerator(device_list=...): `assert device_list` raises for an empty list,
\* otherwise the global bt_log_gen holds the new generator
Construct(device_list) ==
  /\ gen_pc = "unbuilt"
  /\ IF device_list # <<>>
     THEN /\ generators' = [generators EXCEPT !["bt_log_gen"] = device_list]
          /\ gen_pc' = "idle"
     ELSE /\ gen_pc' = "rejected"
          /\ UNCHANGED generators
  /\ UNCHANGED <<BT_STATE_TRANSITIONS, gen_arg, log_size, device_states, events,
                 bt_log_data, entry_state, taken, n_steps,
                 last_event>>

\* Python's None, and a value that is not None
None == <<>>
Some(v) == <<v>>
Value(o) == o[1]

\* last_event after the events of some __call__s on bt_log_gen
LastEventsAfter(last, new_events) ==
  [d \in DOMAIN last |->
     LET mine == {j \in 1..Len(new_events) : EventDeviceId(new_events[j]) = d}
     IN  IF mine = {} THEN last[d]
         ELSE Some(EventStateName(new_events[CHOOSE j \in mine :
                                                \A i \in mine : i <= j]))]

\* A caller that passes a new generator in every call
AlwaysNewGenerator(g) == new_bt_log_gen

\* The generator object a caller passes to generate_bt_log: the notebook's global
\* bt_log_gen, or the new_bt_log_gen() that test_for_anomalies constructs for the call
ArgumentGenerator(g) == IF g = "fresh" THEN new_bt_log_gen ELSE generators[g]

\* generate_bt_log, entered: device_states = bt_log_gen.device_states().  The
\* name the caller binds the result to holds no result of this call until it
\* returns
GenerateStart(g, n) ==
  /\ gen_pc = "idle"
  /\ n_steps + n <= MaxSteps
  /\ gen_pc' = "stepping"
  /\ gen_arg' = g
  /\ log_size' = n
  /\ generators' = [generators EXCEPT ![g] = ArgumentGenerator(g)]
  /\ device_states' = DeviceStatesOf(ArgumentGenerator(g))
  /\ events' = <<>>
  /\ entry_state' = [i \in 1..Len(ArgumentGenerator(g)) |->
                       ArgumentGenerator(g)[i].state_index]
  /\ taken' = <<>>
  /\ bt_log_data' = <<>>
  /\ UNCHANGED <<BT_STATE_TRANSITIONS, n_steps, last_event>>

\* A __call__ that writes the new state to every device of the list
CallResultMovesAll(device_list, device_id, pick) ==
  [device_list |-> [i \in 1..Len(device_list) |->
                      [device_list[i] EXCEPT !.state_index = pick[1]]],
   event       |-> _state_repr(device_id, pick[2])]

\* BtLogGenerator.__call__ (one next(bt_log_gen()) of the comprehension): the
\* device list after the call and the event it yields, for the random draws
\* device_id and pick
CallResult(device_list, device_id, pick) ==
  [device_list |-> [device_list EXCEPT ![device_id + 1].state_index = pick[1]],
   event       |-> _state_repr(device_id, pick[2])]

Step ==
  /\ gen_pc = "stepping"
  /\ Len(events) < log_size
  /\ \E device_id \in 0..(Len(generators[gen_arg]) - 1) :
       \E pick \in _pick_new_state(BT_STATE_TRANSITIONS,
                                   generators[gen_arg][device_id + 1].state_index) :
         LET r == CallResult(generators[gen_arg], device_id, pick)
         IN  /\ generators' = [generators EXCEPT ![gen_arg] = r.device_list]
             /\ events' = Append(events, r.event)
             /\ taken' = Append(taken, r.event)
             /\ last_event' = IF gen_arg = "bt_log_gen"
                              THEN LastEventsAfter(last_event, <<r.event>>)
                              ELSE last_event
  /\ n_steps' = n_steps + 1
  /\ UNCHANGED <<BT_STATE_TRANSITIONS, gen_pc, gen_arg, log_size, device_states,
                 bt_log_data, entry_state>>

\* BtLogGenerator.__call__ when _pick_new_state raises for the chosen device: the
\* exception leaves generate_bt_log
StepRaises ==
  /\ gen_pc = "stepping"
  /\ Len(events) < log_size
  /\ \E device_id \in 0..(Len(generators[gen_arg]) - 1) :
       _pick_new_state(BT_STATE_TRANSITIONS,
                       generators[gen_arg][device_id + 1].state_index) = {}
  /\ gen_pc' = "raised"
  /\ UNCHANGED <<BT_STATE_TRANSITIONS, generators, gen_arg, log_size, device_states,
                 events, bt_log_data, entry_state, taken, n_steps,
                 last_event>>

\* A generate_bt_log that reads device_states() only when it builds its result
GenerateReturnReadsLate ==
  /\ gen_pc = "stepping"
  /\ Len(events) = log_size
  /\ bt_log_data' = DeviceStatesOf(generators[gen_arg]) \o events
  /\ gen_pc' = "idle"
  /\ UNCHANGED <<BT_STATE_TRANSITIONS, generators, gen_arg, log_size, device_states,
                 events, entry_state, taken, n_steps,
                 last_event>>

\* generate_bt_log returns "\n".join(device_states + [...]) in a one-element list
GenerateReturn ==
  /\ gen_pc = "stepping"
  /\ Len(events) = log_size
  /\ bt_log_data' = device_states \o events
  /\ gen_pc' = "idle"
  /\ UNCHANGED <<BT_STATE_TRANSITIONS, generators, gen_arg, log_size, device_states,
                 events, entry_state, taken, n_steps,
                 last_event>>

\* A corrective action that appends a name BT_STATE_NAMES does not hold
CorrectiveActionMisnamed ==
  /\ gen_pc = "idle"
  /\ BT_STATE_TRANSITIONS' =
       IF Count(BT_STATE_TRANSITIONS["call_app"], "disconnect") = 0
       THEN [BT_STATE_TRANSITIONS EXCEPT
               !["call_app"] = Append(BT_STATE_TRANSITIONS["call_app"], "disconnect")]
       ELSE BT_STATE_TRANSITIONS
  /\ UNCHANGED <<generators, gen_pc, gen_arg, log_size, device_states, events,
                 bt_log_data, entry_state, taken, n_steps,
                 last_event>>

\* A corrective action that also allows call_app -> discovery
CorrectiveActionAllowsDiscovery ==
  /\ gen_pc = "idle"
  /\ BT_STATE_TRANSITIONS' =
       IF Count(BT_STATE_TRANSITIONS["call_app"], "disconnected") = 0
       THEN [BT_STATE_TRANSITIONS EXCEPT
               !["call_app"] = BT_STATE_TRANSITIONS["call_app"]
                                 \o <<"disconnected", "discovery">>]
       ELSE BT_STATE_TRANSITIONS
  /\ UNCHANGED <<generators, gen_pc, gen_arg, log_size, device_states, events,
                 bt_log_data, entry_state, taken, n_steps,
                 last_event>>

\* A corrective action without the count(...) == 0 test
CorrectiveActionUnguarded ==
  /\ gen_pc = "idle"
  /\ BT_STATE_TRANSITIONS' =
       [BT_STATE_TRANSITIONS EXCEPT
          !["call_app"] = Append(BT_STATE_TRANSITIONS["call_app"], "disconnected")]
  /\ UNCHANGED <<generators, gen_pc, gen_arg, log_size, device_states, events,
                 bt_log_data, entry_state, taken, n_steps,
                 last_event>>

\* the corrective action cell
CorrectiveAction ==
  /\ gen_pc = "idle"
  /\ BT_STATE_TRANSITIONS' =
       IF Count(BT_STATE_TRANSITIONS["call_app"], "disconnected") = 0
       THEN [BT_STATE_TRANSITIONS EXCEPT
               !["call_app"] = Append(BT_STATE_TRANSITIONS["call_app"], "disconnected")]
       ELSE BT_STATE_TRANSITIONS
  /\ UNCHANGED <<generators, gen_pc, gen_arg, log_size, device_states, events,
                 bt_log_data, entry_state, taken, n_steps,
                 last_event>>

-----------------------------------------------------------------------------
(* text_vectorizer *)

\* text_vectorizer.get_vocabulary() after adapt(bt_log_data): the padding token,
\* the out-of-vocabulary token, then every record of the adaptation log (Keras
\* orders them by frequency; the model fixes one order)
Vocabulary ==
  <<"", "[UNK]">> \o
  [k \in 1..(BT_DEVICE_COUNT * Len(BT_STATE_NAMES)) |->
     _state_repr((k - 1) \div Len(BT_STATE_NAMES),
                 BT_STATE_NAMES[((k - 1) % Len(BT_STATE_NAMES)) + 1])]

vocabulary_size == Len(Vocabulary)

VocabularyIndex == [w \in Range(Vocabulary) |-> Index(Vocabulary, w)]

\* text_vectorizer([text]).numpy().ravel().tolist(): the id of each record of the
\* text, 1 ("[UNK]") for a record the vocabulary does not hold
text_vectorizer(txt) ==
  [i \in 1..Len(txt) |->
     IF txt[i] \in DOMAIN VocabularyIndex THEN VocabularyIndex[txt[i]] ELSE 1]

-----------------------------------------------------------------------------
(* SequenceModel.  The trained network is a deterministic function of its     *)
(* parameters, the token and the hidden state passed in.  The model keeps     *)
(* that shape and fixes one family of such functions: the hidden state holds  *)
(* the last state seen of each device ("?" for none: the zero state), and a   *)
(* network trained on logs of a transition table gives a device's next events *)
(* the generator's probabilities under that table.  Probabilities are in      *)
(* hundredths, rounded down.                                                  *)

\* NEXT_TOKEN_PROB_THRESHOLD = 0.02, in hundredths
NEXT_TOKEN_PROB_THRESHOLD == 2

\* sequence_model as built (not trained), as trained on logs of a table, and as
\* under-trained on them: the softmax still gives every token the table does not
\* allow the probability `residual` (hundredths)
UntrainedWeights == [trained |-> FALSE, table |-> InitialTransitions, residual |-> 0]
TrainedOn(table) == [trained |-> TRUE, table |-> table, residual |-> 0]
UnderTrainedOn(table, r) == [trained |-> TRUE, table |-> table, residual |-> r]

\* self.gru.get_initial_state(x): zeros
InitialState == [d \in 0..(BT_DEVICE_COUNT - 1) |-> "?"]

\* embedding + gru: the hidden state after one token, for a network whose token
\* ids are those of the vocabulary vocab
Gru(vocab, h, token_id) ==
  LET w == vocab[token_id + 1]
  IN  IF w \in DOMAIN EventParse
      THEN [h EXCEPT ![EventDeviceId(w)] = EventStateName(w)]
      ELSE h

\* A trained network that learnt only the first target of every state
DenseFirstTargetOnly(vocab, w, h) ==
  [id \in 0..(Len(vocab) - 1) |->
     LET rec == vocab[id + 1]
     IN  IF ~w.trained THEN 100 \div Len(vocab)
         ELSE IF rec \notin DOMAIN EventParse THEN w.residual
         ELSE LET held == h[EventDeviceId(rec)]
              IN  IF held = "?"
                  THEN 100 \div (BT_DEVICE_COUNT * Len(BT_STATE_NAMES))
                  ELSE IF EventStateName(rec) = w.table[held][1]
                       THEN 100 \div BT_DEVICE_COUNT
                       ELSE w.residual]

\* dense (softmax): the probability of every token id, in hundredths
Dense(vocab, w, h) ==
  [id \in 0..(Len(vocab) - 1) |->
     LET rec == vocab[id + 1]
     IN  IF ~w.trained THEN 100 \div Len(vocab)
         ELSE IF rec \notin DOMAIN EventParse THEN w.residual
         ELSE LET held == h[EventDeviceId(rec)]
              IN  IF held = "?"
                  THEN 100 \div (BT_DEVICE_COUNT * Len(BT_STATE_NAMES))
                  ELSE IF EventStateName(rec) \in Range(w.table[held])
                       THEN 100 \div (BT_DEVICE_COUNT * Len(w.table[held]))
                       ELSE w.residual]

\* SequenceModel.call(inputs=[[token_id]], states=st, return_state=True), and
\* predictions[:, -1][0] of its first result
SequenceModel(vocab, w, token_id, st) ==
  LET h0 == IF st = None THEN InitialState ELSE Value(st)
      h1 == Gru(vocab, h0, token_id)
  IN  [predictions |-> Dense(vocab, w, h1), states |-> h1]

-----------------------------------------------------------------------------
(* TextSequenceAnalyzer.detect_anomalies *)

\* tf.where(predictions >= NEXT_TOKEN_PROB_THRESHOLD).numpy().ravel().tolist():
\* the ids at or over the threshold, ascending
RECURSIVE IdsOverThreshold(_, _)
IdsOverThreshold(p, id) ==
  IF id \notin DOMAIN p THEN <<>>
  ELSE (IF p[id] >= NEXT_TOKEN_PROB_THRESHOLD THEN <<id>> ELSE <<>>)
         \o IdsOverThreshold(p, id + 1)

PredictedTokenIds(p) == IdsOverThreshold(p, 0)

\* A check that leaves out "predictions is not None"
IsAnomalyWithoutNoneCheck(pred, token_id, predicted) ==
  token_id \notin Range(predicted)

\* A check that reports the predicted tokens instead of the unpredicted ones
IsAnomalyInverted(pred, token_id, predicted) ==
  pred # None /\ token_id \in Range(predicted)

\* the condition of the if statement of the loop
IsAnomaly(pred, token_id, predicted) ==
  pred # None /\ token_id \notin Range(predicted)

\* A model call that does not pass the carried hidden state
CallSequenceModelWithoutState(token_id, st) ==
  [token_id |-> token_id, states_in |-> None,
   out |-> SequenceModel(Vocabulary, weights, token_id, None)]

\* self.sequence_model(inputs=tf.constant([[token_id]]), states=states,
\* return_state=True): what was passed, and what came back
CallSequenceModel(token_id, st) ==
  [token_id |-> token_id, states_in |-> st,
   out |-> SequenceModel(Vocabulary, weights, token_id, st)]

\* The texts passed to detect_anomalies: every text of at most MaxTextLen records
\* over two records of one device, and some texts with a record of a second
\* device or with a record no log of the generator holds
TextAlphabet == {"0-call_app", "0-disconnected"}
UnknownRecord == "7-paired"

\* The two texts test_for_anomalies holds: the devices' initial states, then one
\* device's way to call_app and on to disconnected, or on to discovery
bt_log_data_call_app_disconnected ==
  <<"0-unknown", "1-unknown", "2-unknown", "1-discovery", "1-pairing", "1-connected",
    "1-connected_hf", "1-call_app", "1-disconnected">>
bt_log_data_call_app_discovery ==
  <<"0-unknown", "1-unknown", "2-unknown", "1-discovery", "1-pairing", "1-connected",
    "1-connected_hf", "1-call_app", "1-discovery">>

Texts ==
  UNION {[1..k -> TextAlphabet] : k \in 0..MaxTextLen}
    \cup {bt_log_data_call_app_disconnected, bt_log_data_call_app_discovery}
    \cup {<<"1-connected_hf", "0-disconnected">>,
          <<"0-call_app", "1-connected_hf", "0-disconnected">>,
          <<UnknownRecord>>,
          <<UnknownRecord, UnknownRecord>>,
          <<"0-call_app", UnknownRecord, "0-disconnected">>}

\* A detect_anomalies whose hidden state outlives the call
DetectStartKeepsStates(txt) ==
  /\ det_pc \in {"idle", "returned", "raised"}
  /\ det_pc' = "loop"
  /\ text' = txt
  /\ sequence' = <<>>
  /\ predictions' = None
  /\ predicted_token_ids' = <<>>
  /\ token_ids' = text_vectorizer(txt)
  /\ reports' = <<>>
  /\ fed' = <<>>
  /\ cb_raised' = FALSE
  /\ UNCHANGED <<weights, states, remembered>>

\* detect_anomalies, entered: the locals before the loop
DetectStart(txt) ==
  /\ det_pc \in {"idle", "returned", "raised"}
  /\ det_pc' = "loop"
  /\ text' = txt
  /\ sequence' = <<>>
  /\ predictions' = None
  /\ states' = None
  /\ predicted_token_ids' = <<>>
  /\ token_ids' = text_vectorizer(txt)
  /\ reports' = <<>>
  /\ fed' = <<>>
  /\ cb_raised' = FALSE
  /\ UNCHANGED <<weights, remembered>>

\* The rest of an iteration after the if statement: the model call and the new
\* prediction set
FeedToken(token_id) ==
  LET call == CallSequenceModel(token_id, states)
  IN  /\ predictions' = Some(call.out.predictions)
      /\ states' = Some(call.out.states)
      /\ predicted_token_ids' = PredictedTokenIds(call.out.predictions)
      /\ fed' = Append(fed, [token_id |-> call.token_id,
                             states_in |-> call.states_in,
                             states_out |-> call.out.states,
                             predicted_token_ids |->
                               PredictedTokenIds(call.out.predictions)])

\* The call anomaly_detected_cb(sequence, token_id, predicted_token_ids), as the
\* callback sees it: `len` is the length of the list object `sequence` at the call
CallbackCall(len, token_id, predicted) ==
  [len |-> len, token_id |-> token_id, predicted_token_ids |-> predicted]

\* One iteration whose token passes the check
ScanToken ==
  /\ det_pc = "loop"
  /\ Len(sequence) < Len(token_ids)
  /\ LET token_id == token_ids[Len(sequence) + 1]
     IN  /\ ~IsAnomaly(predictions, token_id, predicted_token_ids)
         /\ sequence' = Append(sequence, token_id)
         /\ FeedToken(token_id)
  /\ UNCHANGED <<weights, det_pc, text, token_ids, reports, cb_raised, remembered>>

\* A scan that starts over after a report: the offending token is fed without
\* the hidden state carried so far
ScanAnomalyResets ==
  /\ det_pc = "loop"
  /\ Len(sequence) < Len(token_ids)
  /\ LET token_id == token_ids[Len(sequence) + 1]
         call == CallSequenceModel(token_id, None)
     IN  /\ IsAnomaly(predictions, token_id, predicted_token_ids)
         /\ sequence' = Append(sequence, token_id)
         /\ reports' = Append(reports, CallbackCall(Len(sequence) + 1, token_id,
                                                    predicted_token_ids))
         /\ predictions' = Some(call.out.predictions)
         /\ states' = Some(call.out.states)
         /\ predicted_token_ids' = PredictedTokenIds(call.out.predictions)
         /\ fed' = Append(fed, [token_id |-> call.token_id,
                                states_in |-> call.states_in,
                                states_out |-> call.out.states,
                                predicted_token_ids |->
                                  PredictedTokenIds(call.out.predictions)])
  /\ UNCHANGED <<weights, det_pc, text, token_ids, cb_raised, remembered>>

\* One iteration whose token fails the check, with a callback that returns
ScanAnomaly ==
  /\ det_pc = "loop"
  /\ Len(sequence) < Len(token_ids)
  /\ LET token_id == token_ids[Len(sequence) + 1]
     IN  /\ IsAnomaly(predictions, token_id, predicted_token_ids)
         /\ sequence' = Append(sequence, token_id)
         /\ reports' = Append(reports, CallbackCall(Len(sequence) + 1, token_id,
                                                    predicted_token_ids))
         /\ FeedToken(token_id)
  /\ UNCHANGED <<weights, det_pc, text, token_ids, cb_raised, remembered>>

\* A detect_anomalies that catches what the callback raises and goes on
ScanAnomalyRaisesCaught ==
  /\ det_pc = "loop"
  /\ Len(sequence) < Len(token_ids)
  /\ LET token_id == token_ids[Len(sequence) + 1]
     IN  /\ IsAnomaly(predictions, token_id, predicted_token_ids)
         /\ sequence' = Append(sequence, token_id)
         /\ reports' = Append(reports, CallbackCall(Len(sequence) + 1, token_id,
                                                    predicted_token_ids))
         /\ FeedToken(token_id)
  /\ cb_raised' = TRUE
  /\ UNCHANGED <<weights, det_pc, text, token_ids, remembered>>

\* One iteration whose token fails the check, with a callback that raises: the
\* exception leaves detect_anomalies
ScanAnomalyRaises ==
  /\ det_pc = "loop"
  /\ Len(sequence) < Len(token_ids)
  /\ LET token_id == token_ids[Len(sequence) + 1]
     IN  /\ IsAnomaly(predictions, token_id, predicted_token_ids)
         /\ sequence' = Append(sequence, token_id)
         /\ reports' = Append(reports, CallbackCall(Len(sequence) + 1, token_id,
                                                    predicted_token_ids))
  /\ cb_raised' = TRUE
  /\ det_pc' = "raised"
  /\ UNCHANGED <<weights, text, token_ids, predictions, states,
                 predicted_token_ids, fed, remembered>>

\* The reports of the running scan as the callback received them: the content of
\* the sequence at each call, the offending token and the predicted ids
ReportsAsReceived ==
  [k \in 1..Len(reports) |->
     [sequence |-> SubSeq(sequence, 1, reports[k].len),
      token_id |-> reports[k].token_id,
      predicted_token_ids |-> reports[k].predicted_token_ids]]

\* detect_anomalies returns (the loop has run out of tokens); the observer may
\* keep this scan's text and reports to compare a later scan with
DetectReturn ==
  /\ det_pc = "loop"
  /\ Len(sequence) = Len(token_ids)
  /\ det_pc' = "returned"
  /\ \/ remembered' = Some([text |-> text, reports |-> ReportsAsReceived])
     \/ remembered' = remembered
  /\ UNCHANGED <<weights, text, token_ids, sequence, predictions, states,
                 predicted_token_ids, reports, fed, cb_raised>>

\* The list a report kept by the callback reads: the callback was handed the
\* list object `sequence` itself, which the loop goes on extending in place
RetainedSequence(k) == sequence

\* The predicted ids a report kept by the callback reads: a list of its own,
\* which the loop replaces and never changes
RetainedPredicted(k) == reports[k].predicted_token_ids

-----------------------------------------------------------------------------
(* to_dataset *)

\* Dataset.batch(size, drop_remainder): consecutive groups of `size` elements,
\* the last one shorter unless it is dropped
Batch(elements, size, drop_remainder) ==
  LET full == Len(elements) \div size
      n    == IF drop_remainder \/ Len(elements) % size = 0 THEN full ELSE full + 1
  IN  [k \in 1..n |->
         SubSeq(elements, (k - 1) * size + 1,
                IF k * size <= Len(elements) THEN k * size ELSE Len(elements))]

\* A batch step that keeps the incomplete trailing block
BlocksKeepRemainder(seq, window_length) == Batch(seq, window_length + 1, FALSE)

\* from_tensor_slices(sequence).batch(SEQUENCE_LENGTH+1, drop_remainder=True)
Blocks(seq, window_length) == Batch(seq, window_length + 1, TRUE)

\* A map step whose target is not shifted
UnshiftedPair(block) ==
  [input  |-> SubSeq(block, 1, Len(block) - 1),
   target |-> SubSeq(block, 1, Len(block) - 1)]

\* lambda seq: (seq[:-1], seq[1:])
ShiftByOnePair(block) ==
  [input  |-> SubSeq(block, 1, Len(block) - 1),
   target |-> SubSeq(block, 2, Len(block))]

\* Dataset.map
Map(elements) == [k \in 1..Len(elements) |-> ShiftByOnePair(elements[k])]

\* Dataset.shuffle(BUFFER_SIZE, seed): the orders a shuffle can produce (the
\* buffer holds the whole dataset, so every order)
Orders(n) ==
  {f \in [1..n -> 1..n] : \A i, j \in 1..n : i # j => f[i] # f[j]}

Shuffled(elements) ==
  {[k \in 1..Len(elements) |-> elements[f[k]]] : f \in Orders(Len(elements))}

\* to_dataset(sequence, shuffle): the datasets it can return (prefetch changes
\* no element)
to_dataset(seq, shuffle, window_length, batch_size) ==
  LET windows == Map(Blocks(seq, window_length))
      orders  == IF shuffle THEN Shuffled(windows) ELSE {windows}
  IN  {Batch(w, batch_size, FALSE) : w \in orders}

\* the call of to_dataset
ToDataset ==
  /\ ds_pc = "input"
  /\ dataset' \in to_dataset(ds_sequence, ds_shuffle, SEQUENCE_LENGTH, BATCH_SIZE)
  /\ ds_pc' = "built"
  /\ UNCHANGED <<SEQUENCE_LENGTH, BATCH_SIZE, ds_sequence, ds_shuffle>>

\* The token ids of the sequences passed to to_dataset
DatasetTokenIds == {2, 5}

-----------------------------------------------------------------------------
(* The train/validation split of the dataset cells *)

\* A Python slice index against a sequence of length n: a negative index counts
\* from the end, and an index outside the sequence is clamped
SliceIndex(i, n) ==
  IF i < 0 THEN (IF i + n < 0 THEN 0 ELSE i + n)
  ELSE (IF i > n THEN n ELSE i)

\* seq[start:stop] with step 1; None for an omitted bound
PySlice(seq, start, stop) ==
  LET lo == IF start = None THEN 0 ELSE SliceIndex(Value(start), Len(seq))
      hi == IF stop = None THEN Len(seq) ELSE SliceIndex(Value(stop), Len(seq))
  IN  SubSeq(seq, lo + 1, hi)

\* bt_log_sequence[:-VALIDATION_SPLIT]
TrainSlice(seq, k) == PySlice(seq, None, Some(0 - k))

\* bt_log_sequence[-VALIDATION_SPLIT:]
ValidSlice(seq, k) == PySlice(seq, Some(0 - k), None)

\* train_ds = to_dataset(bt_log_sequence[:-VALIDATION_SPLIT], shuffle=True, ...)
BuildTrainDs ==
  /\ split_pc = "input"
  /\ train_sequence' = TrainSlice(bt_log_sequence, VALIDATION_SPLIT)
  /\ train_ds' \in to_dataset(TrainSlice(bt_log_sequence, VALIDATION_SPLIT), TRUE,
                              SEQUENCE_LENGTH, BATCH_SIZE)
  /\ split_pc' = "train_built"
  /\ UNCHANGED <<VALIDATION_SPLIT, bt_log_sequence, valid_sequence, valid_ds>>

\* valid_ds = to_dataset(bt_log_sequence[-VALIDATION_SPLIT:])
BuildValidDs ==
  /\ split_pc = "train_built"
  /\ valid_sequence' = ValidSlice(bt_log_sequence, VALIDATION_SPLIT)
  /\ valid_ds' \in to_dataset(ValidSlice(bt_log_sequence, VALIDATION_SPLIT), FALSE,
                              SEQUENCE_LENGTH, BATCH_SIZE)
  /\ split_pc' = "built"
  /\ UNCHANGED <<VALIDATION_SPLIT, bt_log_sequence, train_sequence, train_ds>>

\* The token sequences that are split: consecutive ids from a first id on, so that
\* a token id names its position
SplitFirstIds == {2, 9}

-----------------------------------------------------------------------------
(* train: sequence_model.fit with early_stop_cb, the EarlyStopping(monitor=      *)
(* "val_loss", patience=EARLY_STOP_PATIENCE, restore_best_weights=True) of the   *)
(* Keras 2 that the notebook selects with TF_USE_LEGACY_KERAS.  A validation    *)
(* loss is an integer in 1..MaxLoss; the parameters of the model are named by   *)
(* the pass that produced them.                                                 *)

\* fit is called: stop_training is cleared and EarlyStopping.on_train_begin runs
FitBegin ==
  /\ fit_pc \in {"idle", "ended"}
  /\ fit_pc' = "running"
  /\ epoch' = 0
  /\ val_loss' = <<>>
  /\ params' = 0
  /\ stop_training' = FALSE
  /\ wait' = 0
  /\ best' = None
  /\ best_weights' = None
  /\ best_epoch' = 0
  /\ stopped_epoch' = 0
  /\ UNCHANGED <<EARLY_STOP_PATIENCE, EPOCHS>>

\* EarlyStopping._is_improvement with min_delta = 0 in "min" mode
IsImprovement(current, best_so_far) ==
  best_so_far = None \/ current < Value(best_so_far)

\* An on_epoch_end that stops without putting the best parameters back
OnEpochEndRestoresNothing(e, current, now) ==
  LET kept == IF best_weights = None THEN Some(now) ELSE best_weights
  IN  IF IsImprovement(current, best)
      THEN [wait |-> 0, best |-> Some(current), best_weights |-> Some(now),
            best_epoch |-> e, stopped_epoch |-> stopped_epoch,
            stop_training |-> FALSE, params |-> now]
      ELSE IF wait + 1 >= EARLY_STOP_PATIENCE /\ e > 0
           THEN [wait |-> wait + 1, best |-> best, best_weights |-> kept,
                 best_epoch |-> best_epoch, stopped_epoch |-> e,
                 stop_training |-> TRUE, params |-> now]
           ELSE [wait |-> wait + 1, best |-> best, best_weights |-> kept,
                 best_epoch |-> best_epoch, stopped_epoch |-> stopped_epoch,
                 stop_training |-> FALSE, params |-> now]

\* EarlyStopping.on_epoch_end(epoch, logs) after the pass that left the model with
\* the parameters `now` and the validation loss `current`: the callback's fields
\* and the model's stop_training and parameters afterwards (with
\* restore_best_weights=True the parameters kept at the best pass are put back
\* when the patience runs out)
OnEpochEnd(e, current, now) ==
  LET kept == IF best_weights = None THEN Some(now) ELSE best_weights
  IN  IF IsImprovement(current, best)
      THEN [wait |-> 0, best |-> Some(current), best_weights |-> Some(now),
            best_epoch |-> e, stopped_epoch |-> stopped_epoch,
            stop_training |-> FALSE, params |-> now]
      ELSE IF wait + 1 >= EARLY_STOP_PATIENCE /\ e > 0
           THEN [wait |-> wait + 1, best |-> best, best_weights |-> kept,
                 best_epoch |-> best_epoch, stopped_epoch |-> e,
                 stop_training |-> TRUE, params |-> Value(kept)]
           ELSE [wait |-> wait + 1, best |-> best, best_weights |-> kept,
                 best_epoch |-> best_epoch, stopped_epoch |-> stopped_epoch,
                 stop_training |-> FALSE, params |-> now]

\* One pass of fit: the training steps give the model new parameters, the
\* validation loss is evaluated and on_epoch_end runs
TrainEpoch(current) ==
  /\ fit_pc = "running"
  /\ epoch < EPOCHS
  /\ ~stop_training
  /\ LET r == OnEpochEnd(epoch, current, epoch + 1)
     IN  /\ wait' = r.wait
         /\ best' = r.best
         /\ best_weights' = r.best_weights
         /\ best_epoch' = r.best_epoch
         /\ stopped_epoch' = r.stopped_epoch
         /\ stop_training' = r.stop_training
         /\ params' = r.params
  /\ val_loss' = Append(val_loss, current)
  /\ epoch' = epoch + 1
  /\ UNCHANGED <<EARLY_STOP_PATIENCE, EPOCHS, fit_pc>>

\* The loop of fit is left (EPOCHS passes done, or stop_training set) and
\* on_train_end runs: this EarlyStopping only prints there
FitEnd ==
  /\ fit_pc = "running"
  /\ epoch = EPOCHS \/ stop_training
  /\ fit_pc' = "ended"
  /\ UNCHANGED <<EARLY_STOP_PATIENCE, EPOCHS, epoch, val_loss, params, stop_training,
                 wait, best, best_weights, best_epoch, stopped_epoch>>

-----------------------------------------------------------------------------
(* The notebook's cells, run from top to bottom in one session; the incremental *)
(* cell may be run again.  A cell is one step.                                   *)

\* The records of a log of n __call__s on a device list under a table, with the
\* device list afterwards
RECURSIVE Runs(_, _, _)
Runs(device_list, transitions, n) ==
  IF n = 0 THEN {[device_list |-> device_list, events |-> <<>>]}
  ELSE UNION {
         UNION {
           LET r == CallResult(device_list, device_id, pick)
           IN  {[device_list |-> rest.device_list,
                 events |-> <<r.event>> \o rest.events] :
                  rest \in Runs(r.device_list, transitions, n - 1)} :
           pick \in _pick_new_state(transitions,
                                    device_list[device_id + 1].state_index)} :
         device_id \in 0..(Len(device_list) - 1)}

\* generate_bt_log(bt_log_gen, log_size) as one step: the texts it can return (as
\* records), each with the device list it leaves
generate_bt_log(device_list, transitions, n) ==
  {[device_list |-> r.device_list, events |-> r.events,
    log |-> DeviceStatesOf(device_list) \o r.events] :
     r \in Runs(device_list, transitions, n)}

\* The texts generate_bt_log(new_bt_log_gen(), n) can return under either table,
\* as test_for_anomalies passes them to detect_anomalies
GeneratedTexts ==
  UNION {{r.log : r \in generate_bt_log(new_bt_log_gen, table, n)} :
           table \in {InitialTransitions,
                      [InitialTransitions EXCEPT
                         !["call_app"] = Append(InitialTransitions["call_app"],
                                                "disconnected")]},
           n \in 0..MaxGeneratedEvents}

\* The order of two records as strings: f"{device_id}-{state_name}" compares by
\* the device digit, then by the state name
StateNameRank(state_name) ==
  CASE state_name = "call_app" -> 1 [] state_name = "connected" -> 2
    [] state_name = "connected_hf" -> 3 [] state_name = "disconnected" -> 4
    [] state_name = "discovery" -> 5 [] state_name = "pairing" -> 6
    [] state_name = "unknown" -> 7

RecordRank(record) ==
  EventDeviceId(record) * Len(BT_STATE_NAMES) + StateNameRank(EventStateName(record))

\* text_vectorizer.adapt(bt_log_data), then get_vocabulary(): the padding token, the
\* out-of-vocabulary token, then the distinct records of the log by descending
\* count, records of equal count in descending string order
AdaptVocabulary(log) ==
  LET tokens == Range(log)
      count(t) == Count(log, t)
      before(t) == {u \in tokens :
                      \/ count(u) > count(t)
                      \/ count(u) = count(t) /\ RecordRank(u) > RecordRank(t)}
  IN  <<"", "[UNK]">> \o
      [k \in 1..Cardinality(tokens) |->
         CHOOSE t \in tokens : Cardinality(before(t)) = k - 1]

\* text_vectorizer(data)[0] under a vocabulary: the id of each record, 1 ("[UNK]")
\* for a record the vocabulary does not hold
VectorizeWith(vocab, data) ==
  [i \in 1..Len(data) |->
     IF data[i] \in Range(vocab) THEN Index(vocab, data[i]) ELSE 1]

\* A call of the layer that adapts it to the data first
AdaptThenCallTextVectorizer(vocab, data) ==
  [vocabulary |-> AdaptVocabulary(data),
   ids |-> VectorizeWith(AdaptVocabulary(data), data)]

\* bt_log_sequence = text_vectorizer(bt_log_data)[0]: the call leaves the layer's
\* vocabulary as it is
CallTextVectorizer(vocab, data) ==
  [vocabulary |-> vocab, ids |-> VectorizeWith(vocab, data)]

\* train(sequence_model, train_ds, valid_ds, callbacks=[early_stop_cb]): the
\* parameters it can leave: those of a network that learnt the table the log was
\* generated under, or (under-trained) the parameters it started from
Train(w) == {w, TrainedOn(BT_STATE_TRANSITIONS)}

\* The record of a train call: its cell, whether the model file existed, and the
\* parameters it left in sequence_model
TrainCall(stage, left) ==
  [stage |-> stage, file_existed |-> model_file # None, left |-> left]

\* text_sequence_analyzer.detect_anomalies(text, anomaly_detected_cb) as one
\* step, for an analyzer with the vocabulary vocab and the parameters w and a
\* callback that returns or raises: the callback calls made, and whether the call
\* was left by the callback's exception
DetectAnomalies(vocab, w, txt, cb_raises) ==
  LET ids == VectorizeWith(vocab, txt)
      RECURSIVE Loop(_, _, _, _)
      Loop(i, pred, st, predicted) ==
        IF i > Len(ids) THEN [reports |-> <<>>, raised |-> FALSE]
        ELSE LET called == IF IsAnomaly(pred, ids[i], predicted)
                           THEN <<CallbackCall(i, ids[i], predicted)>>
                           ELSE <<>>
             IN  IF called # <<>> /\ cb_raises
                 THEN [reports |-> called, raised |-> TRUE]
                 ELSE LET out  == SequenceModel(vocab, w, ids[i], st)
                          rest == Loop(i + 1, Some(out.predictions), Some(out.states),
                                       PredictedTokenIds(out.predictions))
                      IN  [reports |-> called \o rest.reports, raised |-> rest.raised]
  IN  [text |-> txt] @@ Loop(1, None, None, <<>>)

\* test_for_anomalies(text_sequence_analyzer, anomaly_detected_cb): the three
\* detect_anomalies calls, on the generated log and on the two texts, up to the
\* first that the callback's exception leaves
test_for_anomalies(vocab, w, generated, cb_raises) ==
  LET texts == <<generated, bt_log_data_call_app_disconnected,
                 bt_log_data_call_app_discovery>>
      RECURSIVE Calls(_)
      Calls(k) ==
        IF k > Len(texts) THEN <<>>
        ELSE LET scan == DetectAnomalies(vocab, w, texts[k], cb_raises)
             IN  IF scan.raised THEN <<scan>> ELSE <<scan>> \o Calls(k + 1)
  IN  Calls(1)

\* test_for_anomalies was left by an exception
Raised(scans) == scans[Len(scans)].raised

\* test_for_anomalies(text_sequence_analyzer, callback) is left by an exception:
\* only a callback that raises can do that, on its first call
TestRaises(vocab, w, generated, callback) ==
  /\ callback = "raises"
  /\ Raised(test_for_anomalies(vocab, w, generated, TRUE))

\* bt_log_data = generate_bt_log(bt_log_gen)
NewLogCell ==
  /\ nb_pc = "log"
  /\ \E r \in generate_bt_log(generators["bt_log_gen"], BT_STATE_TRANSITIONS,
                                BT_LOG_SIZE) :
       /\ generators' = [generators EXCEPT !["bt_log_gen"] = r.device_list]
       /\ bt_log_data' = r.log
       /\ last_event' = LastEventsAfter(last_event, r.events)
  /\ nb_pc' = "dataset"
  /\ UNCHANGED <<BT_STATE_TRANSITIONS, gen_pc, gen_arg, log_size, device_states,
                 events, entry_state, taken, n_steps>>
  /\ UNCHANGED <<det_vars, ds_vars, split_vars, fit_vars>>
  /\ UNCHANGED <<BT_LOG_SIZE, vocabulary, adapt_calls, analyzer, model_file,
                 train_calls, cycles, last_test,
                 on_anomaly_detected>>

\* text_vectorizer.adapt(bt_log_data); bt_log_sequence, train_ds, valid_ds
DatasetCell ==
  /\ nb_pc = "dataset"
  /\ vocabulary' = AdaptVocabulary(bt_log_data)
  /\ adapt_calls' = adapt_calls + 1
  /\ bt_log_sequence' = VectorizeWith(AdaptVocabulary(bt_log_data), bt_log_data)
  /\ train_sequence' = TrainSlice(bt_log_sequence', VALIDATION_SPLIT)
  /\ valid_sequence' = ValidSlice(bt_log_sequence', VALIDATION_SPLIT)
  /\ train_ds' \in to_dataset(train_sequence', TRUE, SEQUENCE_LENGTH, BATCH_SIZE)
  /\ valid_ds' \in to_dataset(valid_sequence', FALSE, SEQUENCE_LENGTH, BATCH_SIZE)
  /\ nb_pc' = "model"
  /\ UNCHANGED <<VALIDATION_SPLIT, split_pc>>
  /\ UNCHANGED <<gen_vars, det_vars, ds_vars, fit_vars>>
  /\ UNCHANGED <<BT_LOG_SIZE, analyzer, model_file, train_calls, cycles, last_test,
                 on_anomaly_detected>>

\* sequence_model = SequenceModel(...), built and compiled
ModelCell ==
  /\ nb_pc = "model"
  /\ weights' = UntrainedWeights
  /\ nb_pc' = "train"
  /\ UNCHANGED <<det_pc, text, token_ids, sequence, predictions, states,
                 predicted_token_ids, reports, fed, cb_raised, remembered>>
  /\ UNCHANGED <<gen_vars, ds_vars, split_vars, fit_vars>>
  /\ UNCHANGED <<BT_LOG_SIZE, vocabulary, adapt_calls, analyzer, model_file,
                 train_calls, cycles, last_test,
                 on_anomaly_detected>>

\* A training cell without the os.path.exists test
TrainCellUnguarded ==
  /\ nb_pc = "train"
  /\ weights' \in Train(weights)
  /\ train_calls' = Append(train_calls, TrainCall("initial", weights'))
  /\ nb_pc' = "analyzer"
  /\ UNCHANGED <<det_pc, text, token_ids, sequence, predictions, states,
                 predicted_token_ids, reports, fed, cb_raised, remembered>>
  /\ UNCHANGED <<gen_vars, ds_vars, split_vars, fit_vars>>
  /\ UNCHANGED <<BT_LOG_SIZE, vocabulary, adapt_calls, analyzer, model_file, cycles,
                 last_test,
                 on_anomaly_detected>>

\* if not os.path.exists("text_sequence_analyzer.keras"): train(...)
TrainCell ==
  /\ nb_pc = "train"
  /\ IF model_file = None
     THEN /\ weights' \in Train(weights)
          /\ train_calls' = Append(train_calls, TrainCall("initial", weights'))
     ELSE UNCHANGED <<weights, train_calls>>
  /\ nb_pc' = "analyzer"
  /\ UNCHANGED <<det_pc, text, token_ids, sequence, predictions, states,
                 predicted_token_ids, reports, fed, cb_raised, remembered>>
  /\ UNCHANGED <<gen_vars, ds_vars, split_vars, fit_vars>>
  /\ UNCHANGED <<BT_LOG_SIZE, vocabulary, adapt_calls, analyzer, model_file, cycles,
                 last_test,
                 on_anomaly_detected>>

\* The analyzer cell: load text_sequence_analyzer from the file when there is one
\* (sequence_model becomes the loaded one), else construct it from text_vectorizer
\* and sequence_model and save it
AnalyzerCell ==
  /\ nb_pc = "analyzer"
  /\ IF model_file # None
     THEN /\ analyzer' = Some(Value(model_file).vocabulary)
          /\ weights' = Value(model_file).weights
          /\ UNCHANGED model_file
     ELSE /\ analyzer' = Some(vocabulary)
          /\ model_file' = Some([vocabulary |-> vocabulary, weights |-> weights])
          /\ UNCHANGED weights
  /\ nb_pc' = "test"
  /\ UNCHANGED <<det_pc, text, token_ids, sequence, predictions, states,
                 predicted_token_ids, reports, fed, cb_raised, remembered>>
  /\ UNCHANGED <<gen_vars, ds_vars, split_vars, fit_vars>>
  /\ UNCHANGED <<BT_LOG_SIZE, vocabulary, adapt_calls, train_calls, cycles, last_test,
                 on_anomaly_detected>>

\* test_for_anomalies(text_sequence_analyzer, on_anomaly_detected): the log it
\* scans comes from a generator of its own; the callback prints and returns, or
\* raises (an exception leaves the cell, and the next cell can still be run)
TestCell ==
  /\ nb_pc = "test"
  /\ \E g \in generate_bt_log(new_bt_log_gen, BT_STATE_TRANSITIONS, SEQUENCE_LENGTH) :
       last_test' = Some([stage |-> "initial", log |-> g.log,
                          vocabulary |-> Value(analyzer), weights |-> weights])
  /\ nb_pc' = "corrective"
  /\ UNCHANGED <<gen_vars, det_vars, ds_vars, split_vars, fit_vars>>
  /\ UNCHANGED <<BT_LOG_SIZE, vocabulary, adapt_calls, analyzer, model_file,
                 train_calls, cycles, on_anomaly_detected>>

\* the corrective action cell, in its place among the cells; it can be run again
\* between two runs of the incremental cell
CorrectiveCell ==
  /\ nb_pc \in {"corrective", "incremental"}
  /\ CorrectiveAction
  /\ nb_pc' = "incremental"
  /\ UNCHANGED <<det_vars, ds_vars, split_vars, fit_vars>>
  /\ UNCHANGED <<BT_LOG_SIZE, vocabulary, adapt_calls, analyzer, model_file,
                 train_calls, cycles, last_test,
                 on_anomaly_detected>>

\* An incremental cell that does not rebind sequence_model after the load: it
\* trains the model of the cells before, while the loaded analyzer is tested and
\* saved with the parameters of the file
IncrementalCellTrainsStaleModel ==
  /\ nb_pc = "incremental"
  /\ cycles < MaxCycles
  /\ \E r \in generate_bt_log(generators["bt_log_gen"], BT_STATE_TRANSITIONS,
                                BT_LOG_SIZE) :
     \E g \in generate_bt_log(new_bt_log_gen, BT_STATE_TRANSITIONS, SEQUENCE_LENGTH) :
       LET loaded  == model_file # None
           an      == IF loaded THEN Some(Value(model_file).vocabulary) ELSE analyzer
           w0      == IF loaded THEN Value(model_file).weights ELSE weights
           called  == CallTextVectorizer(vocabulary, r.log)
       IN  /\ generators' = [generators EXCEPT !["bt_log_gen"] = r.device_list]
           /\ bt_log_data' = r.log
           /\ last_event' = LastEventsAfter(last_event, r.events)
           /\ vocabulary' = called.vocabulary
           /\ bt_log_sequence' = called.ids
           /\ train_sequence' = TrainSlice(called.ids, VALIDATION_SPLIT)
           /\ valid_sequence' = ValidSlice(called.ids, VALIDATION_SPLIT)
           /\ train_ds' \in to_dataset(train_sequence', TRUE, SEQUENCE_LENGTH,
                                       BATCH_SIZE)
           /\ valid_ds' \in to_dataset(valid_sequence', FALSE, SEQUENCE_LENGTH,
                                       BATCH_SIZE)
           /\ weights' \in Train(weights)
           /\ train_calls' = Append(train_calls, TrainCall("incremental", weights'))
           /\ analyzer' = an
           /\ last_test' = Some([stage |-> "incremental", log |-> g.log,
                                  vocabulary |-> Value(an), weights |-> w0])
           /\ model_file' =
                IF TestRaises(Value(an), w0, g.log, on_anomaly_detected)
                THEN model_file
                ELSE Some([vocabulary |-> Value(an), weights |-> w0])
  /\ cycles' = cycles + 1
  /\ UNCHANGED <<BT_STATE_TRANSITIONS, gen_pc, gen_arg, log_size, device_states,
                 events, entry_state, taken, n_steps>>
  /\ UNCHANGED <<det_pc, text, token_ids, sequence, predictions, states,
                 predicted_token_ids, reports, fed, cb_raised, remembered>>
  /\ UNCHANGED <<VALIDATION_SPLIT, split_pc>>
  /\ UNCHANGED <<ds_vars, fit_vars>>
  /\ UNCHANGED <<BT_LOG_SIZE, nb_pc, adapt_calls, on_anomaly_detected>>

\* The incremental training and evaluation cell: load the saved analyzer if there
\* is one (sequence_model becomes its model), generate a new log with bt_log_gen,
\* vectorize it, build the datasets, train, test_for_anomalies, save; an
\* exception of the callback leaves the cell before the save
IncrementalCell ==
  /\ nb_pc = "incremental"
  /\ cycles < MaxCycles
  /\ \E r \in generate_bt_log(generators["bt_log_gen"], BT_STATE_TRANSITIONS,
                                BT_LOG_SIZE) :
     \E g \in generate_bt_log(new_bt_log_gen, BT_STATE_TRANSITIONS, SEQUENCE_LENGTH) :
       LET loaded  == model_file # None
           an      == IF loaded THEN Some(Value(model_file).vocabulary) ELSE analyzer
           w0      == IF loaded THEN Value(model_file).weights ELSE weights
           called  == CallTextVectorizer(vocabulary, r.log)
       IN  /\ generators' = [generators EXCEPT !["bt_log_gen"] = r.device_list]
           /\ bt_log_data' = r.log
           /\ last_event' = LastEventsAfter(last_event, r.events)
           /\ vocabulary' = called.vocabulary
           /\ bt_log_sequence' = called.ids
           /\ train_sequence' = TrainSlice(called.ids, VALIDATION_SPLIT)
           /\ valid_sequence' = ValidSlice(called.ids, VALIDATION_SPLIT)
           /\ train_ds' \in to_dataset(train_sequence', TRUE, SEQUENCE_LENGTH,
                                       BATCH_SIZE)
           /\ valid_ds' \in to_dataset(valid_sequence', FALSE, SEQUENCE_LENGTH,
                                       BATCH_SIZE)
           /\ weights' \in Train(w0)
           /\ train_calls' = Append(train_calls, TrainCall("incremental", weights'))
           /\ analyzer' = an
           /\ last_test' = Some([stage |-> "incremental", log |-> g.log,
                                  vocabulary |-> Value(an), weights |-> weights'])
           /\ model_file' =
                IF TestRaises(Value(an), weights', g.log, on_anomaly_detected)
                THEN model_file
                ELSE Some([vocabulary |-> Value(an), weights |-> weights'])
  /\ cycles' = cycles + 1
  /\ UNCHANGED <<BT_STATE_TRANSITIONS, gen_pc, gen_arg, log_size, device_states,
                 events, entry_state, taken, n_steps>>
  /\ UNCHANGED <<det_pc, text, token_ids, sequence, predictions, states,
                 predicted_token_ids, reports, fed, cb_raised, remembered>>
  /\ UNCHANGED <<VALIDATION_SPLIT, split_pc>>
  /\ UNCHANGED <<ds_vars, fit_vars>>
  /\ UNCHANGED <<BT_LOG_SIZE, nb_pc, adapt_calls, on_anomaly_detected>>

-----------------------------------------------------------------------------
(* Specifications *)

\* The cells before any has run, with the notebook's configuration
NbIdle ==
  /\ BT_LOG_SIZE = 100000
  /\ nb_pc = "log"
  /\ vocabulary = None
  /\ adapt_calls = 0
  /\ analyzer = None
  /\ model_file = None
  /\ train_calls = <<>>
  /\ cycles = 0
  /\ last_test = None
  /\ on_anomaly_detected = "prints"

\* Training before any fit, with the notebook's configuration
FitIdle ==
  /\ EARLY_STOP_PATIENCE = 10
  /\ EPOCHS = 1000
  /\ fit_pc = "idle"
  /\ epoch = 0
  /\ val_loss = <<>>
  /\ params = 0
  /\ stop_training = FALSE
  /\ wait = 0
  /\ best = None
  /\ best_weights = None
  /\ best_epoch = 0
  /\ stopped_epoch = 0

\* The dataset cell before it runs, with the notebook's configuration
SplitIdle ==
  /\ VALIDATION_SPLIT = 10000
  /\ bt_log_sequence = <<>>
  /\ split_pc = "input"
  /\ train_sequence = <<>>
  /\ valid_sequence = <<>>
  /\ train_ds = <<>>
  /\ valid_ds = <<>>

\* The windowing pipeline before any call, with the notebook's configuration
DsIdle ==
  /\ SEQUENCE_LENGTH = 100
  /\ BATCH_SIZE = 128
  /\ ds_pc = "input"
  /\ ds_sequence = <<>>
  /\ ds_shuffle = FALSE
  /\ dataset = <<>>

DetIdle ==
  /\ det_pc = "idle"
  /\ text = <<>>
  /\ token_ids = <<>>
  /\ sequence = <<>>
  /\ predictions = None
  /\ states = None
  /\ predicted_token_ids = <<>>
  /\ reports = <<>>
  /\ fed = <<>>
  /\ cb_raised = FALSE
  /\ remembered = None

GenIdle ==
  /\ BT_STATE_TRANSITIONS = InitialTransitions
  /\ generators = [g \in GeneratorNames |-> new_bt_log_gen]
  /\ gen_pc = "idle"
  /\ gen_arg = "bt_log_gen"
  /\ log_size = 0
  /\ device_states = <<>>
  /\ events = <<>>
  /\ bt_log_data = <<>>
  /\ entry_state = <<>>
  /\ taken = <<>>
  /\ n_steps = 0
  /\ last_event = [d \in 0..(BT_DEVICE_COUNT - 1) |-> None]

vars == <<gen_vars, det_vars, ds_vars, split_vars, fit_vars, nb_vars>>

\* The generator: the notebook after its generator cell
GenInit ==
  /\ GenIdle
  /\ DetIdle
  /\ DsIdle
  /\ SplitIdle
  /\ FitIdle
  /\ NbIdle
  /\ weights = UntrainedWeights

GenNext ==
  \/ /\ \E g \in GeneratorNames : \E n \in 0..MaxLogSize : GenerateStart(g, n)
     /\ UNCHANGED rest_of_gen
  \/ Step /\ UNCHANGED rest_of_gen
  \/ GenerateReturn /\ UNCHANGED rest_of_gen
  \/ CorrectiveAction /\ UNCHANGED rest_of_gen

SpecGen == GenInit /\ [][GenNext]_vars

\* The tables a sequence_model can have been trained on
CorrectedTransitions ==
  [InitialTransitions EXCEPT
     !["call_app"] = Append(InitialTransitions["call_app"], "disconnected")]

\* The anomaly scan: a text_sequence_analyzer whose sequence_model is untrained,
\* trained on logs of the first table or of the corrected one, or under-trained on
\* logs of the first table
DetectInit ==
  /\ GenIdle
  /\ DetIdle
  /\ DsIdle
  /\ SplitIdle
  /\ FitIdle
  /\ NbIdle
  /\ weights \in {UntrainedWeights, TrainedOn(InitialTransitions),
                  TrainedOn(CorrectedTransitions)}
                   \cup {UnderTrainedOn(InitialTransitions, r) : r \in 1..MaxResidual}

DetectNext ==
  \/ /\ \E txt \in Texts \cup GeneratedTexts : DetectStart(txt)
     /\ UNCHANGED rest_of_det
  \/ ScanToken /\ UNCHANGED rest_of_det
  \/ ScanAnomaly /\ UNCHANGED rest_of_det
  \/ ScanAnomalyRaises /\ UNCHANGED rest_of_det
  \/ DetectReturn /\ UNCHANGED rest_of_det

SpecDetect == DetectInit /\ [][DetectNext]_vars

\* The windowing pipeline: a token sequence, a window length and a batch size
DatasetInit ==
  /\ GenIdle
  /\ DetIdle
  /\ SplitIdle
  /\ FitIdle
  /\ NbIdle
  /\ weights = UntrainedWeights
  /\ SEQUENCE_LENGTH \in 1..MaxSequenceLength
  /\ BATCH_SIZE \in 1..MaxBatchSize
  /\ ds_pc = "input"
  /\ ds_sequence \in UNION {[1..n -> DatasetTokenIds] : n \in 0..MaxTokens}
  /\ ds_shuffle \in BOOLEAN
  /\ dataset = <<>>

DatasetNext ==
  ToDataset /\ UNCHANGED rest_of_ds

SpecDataset == DatasetInit /\ [][DatasetNext]_vars

\* The dataset cell: a token sequence, a holdout size, a window length and a
\* batch size
SplitInit ==
  /\ GenIdle
  /\ DetIdle
  /\ FitIdle
  /\ NbIdle
  /\ weights = UntrainedWeights
  /\ SEQUENCE_LENGTH \in 1..MaxSequenceLength
  /\ BATCH_SIZE \in 1..MaxBatchSize
  /\ ds_pc = "input"
  /\ ds_sequence = <<>>
  /\ ds_shuffle = FALSE
  /\ dataset = <<>>
  /\ VALIDATION_SPLIT \in 0..MaxValidationSplit
  /\ bt_log_sequence \in {[i \in 1..n |-> first + i - 1] :
                             n \in 0..MaxSplitTokens, first \in SplitFirstIds}
  /\ split_pc = "input"
  /\ train_sequence = <<>>
  /\ valid_sequence = <<>>
  /\ train_ds = <<>>
  /\ valid_ds = <<>>

SplitNext ==
  \/ BuildTrainDs /\ UNCHANGED rest_of_split
  \/ BuildValidDs /\ UNCHANGED rest_of_split

SpecSplit == SplitInit /\ [][SplitNext]_vars

\* Training: one or more fits under a patience and a maximum number of passes
FitInit ==
  /\ GenIdle
  /\ DetIdle
  /\ DsIdle
  /\ SplitIdle
  /\ NbIdle
  /\ weights = UntrainedWeights
  /\ EARLY_STOP_PATIENCE \in 1..MaxPatience
  /\ EPOCHS \in 1..MaxEpochs
  /\ fit_pc = "idle"
  /\ epoch = 0
  /\ val_loss = <<>>
  /\ params = 0
  /\ stop_training = FALSE
  /\ wait = 0
  /\ best = None
  /\ best_weights = None
  /\ best_epoch = 0
  /\ stopped_epoch = 0

FitNext ==
  \/ FitBegin /\ UNCHANGED rest_of_fit
  \/ /\ \E current \in 1..MaxLoss : TrainEpoch(current)
     /\ UNCHANGED rest_of_fit
  \/ FitEnd /\ UNCHANGED rest_of_fit

SpecFit == FitInit /\ [][FitNext]_vars

\* A model file left by an earlier session of the notebook
EarlierFile == [vocabulary |-> Vocabulary, weights |-> TrainedOn(InitialTransitions)]

\* A session of the notebook from its first log cell on, under a small
\* configuration, with or without a model file of an earlier session
NotebookInit ==
  /\ GenIdle
  /\ DetIdle
  /\ FitIdle
  /\ weights = UntrainedWeights
  /\ SEQUENCE_LENGTH = 1
  /\ BATCH_SIZE \in 1..MaxBatchSize
  /\ ds_pc = "input"
  /\ ds_sequence = <<>>
  /\ ds_shuffle = FALSE
  /\ dataset = <<>>
  /\ VALIDATION_SPLIT = 2
  /\ bt_log_sequence = <<>>
  /\ split_pc = "input"
  /\ train_sequence = <<>>
  /\ valid_sequence = <<>>
  /\ train_ds = <<>>
  /\ valid_ds = <<>>
  /\ BT_LOG_SIZE \in 1..MaxNotebookLogSize
  /\ nb_pc = "log"
  /\ vocabulary = None
  /\ adapt_calls = 0
  /\ analyzer = None
  /\ model_file \in {None, Some(EarlierFile)}
  /\ train_calls = <<>>
  /\ cycles = 0
  /\ last_test = None
  /\ on_anomaly_detected = "prints"

NotebookNext ==
  \/ NewLogCell
  \/ DatasetCell
  \/ ModelCell
  \/ TrainCell
  \/ AnalyzerCell
  \/ TestCell
  \/ CorrectiveCell
  \/ IncrementalCell

SpecNotebook == NotebookInit /\ [][NotebookNext]_vars

\* The notebook after its setup cells, before its first test_for_anomalies: the
\* first log held every record of every device (as a log of 100000 events does),
\* so text_vectorizer and the analyzer have the whole vocabulary; sequence_model
\* learnt the first table, in this session (no file was found, train ran and the
\* analyzer cell saved) or in an earlier one (the file was found and loaded).
\* bt_log_gen is where a log left it. Of the first log the records, the sequence
\* and the datasets are left out: the incremental cell assigns each of them
\* before it reads it. on_anomaly_detected is the notebook's, or a callback that
\* raises.
LoopInit ==
  /\ BT_STATE_TRANSITIONS = InitialTransitions
  /\ BT_LOG_SIZE = 1
  /\ \E r \in generate_bt_log(new_bt_log_gen, InitialTransitions, BT_LOG_SIZE) :
       /\ generators = [g \in GeneratorNames |->
                          IF g = "bt_log_gen" THEN r.device_list ELSE new_bt_log_gen]
       /\ last_event = LastEventsAfter([d \in 0..(BT_DEVICE_COUNT - 1) |-> None],
                                       r.events)
  /\ gen_pc = "idle"
  /\ gen_arg = "bt_log_gen"
  /\ log_size = 0
  /\ device_states = <<>>
  /\ events = <<>>
  /\ bt_log_data = <<>>
  /\ entry_state = <<>>
  /\ taken = <<>>
  /\ n_steps = 0
  /\ DetIdle
  /\ FitIdle
  /\ weights = TrainedOn(InitialTransitions)
  /\ SEQUENCE_LENGTH = 1
  /\ BATCH_SIZE = 1
  /\ ds_pc = "input"
  /\ ds_sequence = <<>>
  /\ ds_shuffle = FALSE
  /\ dataset = <<>>
  /\ VALIDATION_SPLIT = 2
  /\ bt_log_sequence = <<>>
  /\ split_pc = "input"
  /\ train_sequence = <<>>
  /\ valid_sequence = <<>>
  /\ train_ds = <<>>
  /\ valid_ds = <<>>
  /\ nb_pc = "test"
  /\ vocabulary = Vocabulary
  /\ adapt_calls = 1
  /\ analyzer = Some(Vocabulary)
  /\ model_file = Some(EarlierFile)
  /\ train_calls \in {<<>>, <<[stage |-> "initial", file_existed |-> FALSE,
                               left |-> TrainedOn(InitialTransitions)]>>}
  /\ cycles = 0
  /\ last_test = None
  /\ on_anomaly_detected \in {"prints", "raises"}

LoopNext ==
  \/ TestCell
  \/ CorrectiveCell
  \/ IncrementalCell

SpecLoop == LoopInit /\ [][LoopNext]_vars

\* A BT_STATE_TRANSITIONS set to {}
EmptyTransitions == [s \in {} |-> <<>>]

\* The notebook under a configuration that may be in error: an empty device list
\* passed to BtLogGenerator, an empty BT_STATE_TRANSITIONS, SEQUENCE_LENGTH = 0
ConfigInit ==
  /\ DetIdle
  /\ SplitIdle
  /\ FitIdle
  /\ NbIdle
  /\ weights = UntrainedWeights
  /\ \/ BT_STATE_TRANSITIONS = InitialTransitions
     \/ BT_STATE_TRANSITIONS = EmptyTransitions
  /\ generators = [g \in GeneratorNames |-> <<>>]
  /\ gen_pc = "unbuilt"
  /\ gen_arg = "bt_log_gen"
  /\ log_size = 0
  /\ device_states = <<>>
  /\ events = <<>>
  /\ bt_log_data = <<>>
  /\ entry_state = <<>>
  /\ taken = <<>>
  /\ n_steps = 0
  /\ last_event = [d \in 0..(BT_DEVICE_COUNT - 1) |-> None]
  /\ SEQUENCE_LENGTH \in 0..MaxSequenceLength
  /\ BATCH_SIZE \in 1..MaxBatchSize
  /\ ds_pc = "input"
  /\ ds_sequence \in UNION {[1..n -> DatasetTokenIds] : n \in 0..MaxConfigTokens}
  /\ ds_shuffle \in BOOLEAN
  /\ dataset = <<>>

ConfigNext ==
  \/ /\ \E device_list \in {<<>>, new_bt_log_gen, RenumberedDevices} :
          Construct(device_list)
     /\ UNCHANGED rest_of_gen
  \/ /\ bt_log_data = <<>>
     /\ \E n \in 1..MaxLogSize : GenerateStart("bt_log_gen", n)
     /\ UNCHANGED rest_of_gen
  \/ Step /\ UNCHANGED rest_of_gen
  \/ StepRaises /\ UNCHANGED rest_of_gen
  \/ GenerateReturn /\ UNCHANGED rest_of_gen
  \/ ToDataset /\ UNCHANGED rest_of_ds

SpecConfig == ConfigInit /\ [][ConfigNext]_vars

-----------------------------------------------------------------------------
(* Properties of the generator *)

\* The state the device of the k-th event of the running call held immediately
\* before that event: the state its latest earlier event named, or the state it
\* was in when generate_bt_log was entered
HeldBefore(k) ==
  LET d       == EventDeviceId(taken[k])
      earlier == {j \in 1..(k - 1) : EventDeviceId(taken[j]) = d}
  IN  IF earlier = {}
      THEN BT_STATE_NAMES[entry_state[d + 1] + 1]
      ELSE EventStateName(taken[CHOOSE j \in earlier : \A i \in earlier : i <= j])

\* C1: every event a __call__ emits names a state that is in the allowed-transitions
\* list, in the table in force at that step, of the state the chosen device held
\* immediately before the step; the device then holds the named state.
C1_EventFollowsTable ==
  gen_pc = "stepping" =>
    /\ \A k \in 1..Len(taken) :
         EventStateName(taken[k]) \in Range(BT_STATE_TRANSITIONS[HeldBefore(k)])
    /\ \A d \in 0..(Len(generators[gen_arg]) - 1) :
         LET mine == {j \in 1..Len(taken) : EventDeviceId(taken[j]) = d}
         IN  BT_STATE_NAMES[generators[gen_arg][d + 1].state_index + 1] =
               IF mine = {}
               THEN BT_STATE_NAMES[entry_state[d + 1] + 1]
               ELSE EventStateName(taken[CHOOSE j \in mine : \A i \in mine : i <= j])

\* C1 witness: under the corrected table a device stepped call_app -> disconnected
C1_Witness ==
  /\ gen_pc = "stepping"
  /\ Len(taken) = 2
  /\ taken[1] = "0-call_app"
  /\ taken[2] = "0-disconnected"

\* C8: generate_bt_log(gen, count) returns N + count records: the N devices' states
\* as they were when the call was entered, in device-list order, then the events of
\* the count __call__s in the order they were taken.
C8_GenerateReturnsPrimingThenEvents ==
  (gen_pc = "idle" /\ bt_log_data # <<>>) =>
     LET device_list == generators[gen_arg]
         N == Len(device_list)
     IN  /\ Len(bt_log_data) = N + log_size
         /\ Len(taken) = log_size
         /\ \A i \in 1..N :
              bt_log_data[i] = _state_repr(device_list[i].id,
                                           BT_STATE_NAMES[entry_state[i] + 1])
         /\ \A k \in 1..log_size : bt_log_data[N + k] = taken[k]

\* C8 witness: a call on a generator that had stepped before returned two events,
\* one of them for a device of the priming prefix
C8_Witness ==
  /\ gen_pc = "idle"
  /\ gen_arg = "bt_log_gen"
  /\ Len(bt_log_data) = BT_DEVICE_COUNT + 2
  /\ bt_log_data[1] = "0-discovery"
  /\ bt_log_data[BT_DEVICE_COUNT + 1] = "0-pairing"

\* C16: in every state the generator cells and the corrective action can reach,
\* every name of BT_STATE_NAMES has an entry in BT_STATE_TRANSITIONS with at least
\* one target, every target is a name of BT_STATE_NAMES, and every device of every
\* generator is in a state from which __call__ can pick a next state.
C16_TableWellFormed ==
  /\ \A s \in Range(BT_STATE_NAMES) :
       /\ s \in DOMAIN BT_STATE_TRANSITIONS
       /\ Len(BT_STATE_TRANSITIONS[s]) >= 1
  /\ \A s \in DOMAIN BT_STATE_TRANSITIONS :
       /\ s \in Range(BT_STATE_NAMES)
       /\ Range(BT_STATE_TRANSITIONS[s]) \subseteq Range(BT_STATE_NAMES)
  /\ \A g \in GeneratorNames : \A i \in 1..Len(generators[g]) :
       /\ generators[g][i].state_index \in 0..(Len(BT_STATE_NAMES) - 1)
       /\ _pick_new_state(BT_STATE_TRANSITIONS, generators[g][i].state_index) # {}

\* C16 witness: the corrective action has run and a device is in call_app, the
\* state whose list it extended
C16_Witness ==
  /\ Len(BT_STATE_TRANSITIONS["call_app"]) = 3
  /\ \E i \in 1..BT_DEVICE_COUNT :
       BT_STATE_NAMES[generators["bt_log_gen"][i].state_index + 1] = "call_app"

\* C17: a __call__ changes the state of exactly one device of the generator's
\* list, the one its event names, to the state the event names, and leaves the
\* other devices, the ids, the order and the length of the list and the other
\* generator as they were; no other operation (entering generate_bt_log, which
\* reads device_states, its return, the corrective action) changes the state of a
\* device of an existing generator.
C17_OnlyCallMovesOneDevice ==
  [][IF n_steps' # n_steps
     THEN LET before == generators[gen_arg]
              after  == generators'[gen_arg]
              moved  == {i \in 1..Len(before) :
                           after[i].state_index # before[i].state_index}
              event  == taken'[Len(taken')]
          IN  /\ gen_arg' = gen_arg
              /\ Len(taken') = Len(taken) + 1
              /\ Len(after) = Len(before)
              /\ \A i \in 1..Len(before) : after[i].id = before[i].id
              /\ moved = {EventDeviceId(event) + 1}
              /\ \A i \in moved :
                   BT_STATE_NAMES[after[i].state_index + 1] = EventStateName(event)
              /\ \A g \in GeneratorNames \ {gen_arg} : generators'[g] = generators[g]
     ELSE /\ generators'["bt_log_gen"] = generators["bt_log_gen"]
          /\ \/ generators'["fresh"] = generators["fresh"]
             \/ /\ gen_pc = "idle" /\ gen_pc' = "stepping" /\ gen_arg' = "fresh"
                /\ generators'["fresh"] = new_bt_log_gen]_vars

\* C17 witness: a __call__ moved the second device while the first, moved by an
\* earlier __call__, kept its state
C17_Witness ==
  /\ gen_pc = "stepping"
  /\ Len(taken) = 2
  /\ taken[1] = "0-discovery"
  /\ taken[2] = "1-discovery"
  /\ generators[gen_arg][1].state_index = Index(BT_STATE_NAMES, "discovery")
  /\ generators[gen_arg][3].state_index = Index(BT_STATE_NAMES, "unknown")

\* The state of device index d of bt_log_gen that its events so far imply: the
\* state named by the most recent, or "unknown" if no event named the device
ImpliedState(d) ==
  IF last_event[d] = None THEN "unknown" ELSE Value(last_event[d])

\* C20: bt_log_gen resumes across calls.  Each device of bt_log_gen is in the
\* state named by its most recent event over all calls so far (its initial state
\* if it has none), whatever generate_bt_log calls on other generators came in
\* between; and a generate_bt_log call on bt_log_gen starts from there: its
\* priming prefix lists those states, and they are the states the table is
\* applied to for the call's first event of each device.
C20_GeneratorResumesAcrossCalls ==
  /\ \A d \in 0..(BT_DEVICE_COUNT - 1) :
       BT_STATE_NAMES[generators["bt_log_gen"][d + 1].state_index + 1] = ImpliedState(d)
  /\ (gen_pc = "stepping" /\ gen_arg = "bt_log_gen" /\ taken = <<>>) =>
       \A d \in 0..(BT_DEVICE_COUNT - 1) :
         /\ device_states[d + 1] = _state_repr(d, ImpliedState(d))
         /\ BT_STATE_NAMES[entry_state[d + 1] + 1] = ImpliedState(d)

\* C20 witness: a call on bt_log_gen is entered after an earlier call on it moved
\* its first device twice, and after a call on a new generator, whose devices have
\* moved too
C20_Witness ==
  /\ gen_pc = "stepping"
  /\ gen_arg = "bt_log_gen"
  /\ taken = <<>>
  /\ device_states[1] = "0-pairing"
  /\ device_states[2] = "1-unknown"
  /\ generators["fresh"] # new_bt_log_gen

\* C27: the corrective action is idempotent.  The table is the one the first cell
\* set or that table with "disconnected" appended once to the list of call_app;
\* the only change a step ever makes to it is from the first to the second, so a
\* corrective action run again changes nothing.
C27_CorrectiveActionIdempotent ==
  [][/\ BT_STATE_TRANSITIONS' \in {InitialTransitions, CorrectedTransitions}
     /\ Count(BT_STATE_TRANSITIONS'["call_app"], "disconnected") <= 1
     /\ BT_STATE_TRANSITIONS' # BT_STATE_TRANSITIONS =>
          /\ BT_STATE_TRANSITIONS = InitialTransitions
          /\ BT_STATE_TRANSITIONS' = CorrectedTransitions]_vars

\* C27 witness: the corrective action has run, and a log generated after it has
\* used the transition it added
C27_Witness ==
  /\ Count(BT_STATE_TRANSITIONS["call_app"], "disconnected") = 1
  /\ gen_pc = "idle"
  /\ Len(bt_log_data) = BT_DEVICE_COUNT + 1
  /\ bt_log_data[2] = "1-call_app"
  /\ bt_log_data[BT_DEVICE_COUNT + 1] = "1-disconnected"

\* The states a device starting in "unknown" can be in under a table
ReachableStates(table) ==
  LET RECURSIVE Closure(_)
      Closure(seen) ==
        LET more == seen \cup UNION {Range(table[s]) : s \in seen \cap DOMAIN table}
        IN  IF more = seen THEN seen ELSE Closure(more)
  IN  Closure({"unknown"})

\* The events the generator can ever emit under a table from new_bt_log_gen()
EmittableEvents(table) ==
  {_state_repr(d, s) :
     d \in 0..(BT_DEVICE_COUNT - 1),
     s \in UNION {Range(table[r]) :
                   r \in ReachableStates(table) \cap DOMAIN table}}

\* The events the generator can emit under the table of the first cell, and the
\* records of a priming prefix of new_bt_log_gen()
FirstTableEvents == EmittableEvents(InitialTransitions)
InitialDeviceStates == Range(DeviceStatesOf(new_bt_log_gen))

\* C28: the corrective action adds no event label.  Under the table in force,
\* before or after the corrective action, every name of BT_STATE_NAMES is
\* reachable from "unknown" and the events the generator can emit are those it can
\* emit under the first table; every event emitted so far is one of them.
C28_CorrectionAddsNoEventLabel ==
  /\ ReachableStates(BT_STATE_TRANSITIONS) = Range(BT_STATE_NAMES)
  /\ EmittableEvents(BT_STATE_TRANSITIONS) = FirstTableEvents
  /\ Range(taken) \subseteq FirstTableEvents
  /\ Range(bt_log_data) \subseteq FirstTableEvents \cup InitialDeviceStates

\* C28 witness: after the corrective action a device has taken the added
\* transition, and its event is a record the first table could produce as well
C28_Witness ==
  /\ BT_STATE_TRANSITIONS = CorrectedTransitions
  /\ gen_pc = "stepping"
  /\ taken = <<"0-call_app", "0-disconnected">>
  /\ "0-disconnected" \in FirstTableEvents

\* C25: the id written in the event of a __call__ is the id of the device whose
\* state the call changed, the id under which device_states reports that device:
\* after a __call__, the device that device_states lists under the event's id is
\* in the state the event names, for every device list the constructor accepts.
C25_EventCarriesTheIdOfTheMovedDevice ==
  (gen_pc = "stepping" /\ taken # <<>>) =>
     LET event == taken[Len(taken)]
         device_list == generators[gen_arg]
     IN  \E i \in 1..Len(device_list) :
           /\ device_list[i].id = EventDeviceId(event)
           /\ DeviceStatesOf(device_list)[i] = event

\* The same for the device lists new_bt_log_gen builds, whose ids are the positions
C25_HoldsWhenIdsArePositions ==
  (\A i \in 1..Len(generators[gen_arg]) : generators[gen_arg][i].id = i - 1) =>
     C25_EventCarriesTheIdOfTheMovedDevice

-----------------------------------------------------------------------------
(* Properties of the anomaly scan *)

\* The positions (1-based) of the consumed tokens that are not in the prediction
\* set computed by the model call that fed the token before them
OffendingPositions ==
  {i \in 2..Len(sequence) :
     i - 1 <= Len(fed) /\ token_ids[i] \notin Range(fed[i - 1].predicted_token_ids)}

\* C2: in a scan whose callback does not raise, the callback has been called
\* exactly once for every consumed position i >= 2 (i >= 1 counting from 0) whose
\* token is not in the prediction set computed after feeding the token before it,
\* in scan order, and for no other position.
C2_OneCallbackPerOffendingToken ==
  ~cb_raised =>
    /\ Len(reports) = Cardinality(OffendingPositions)
    /\ \A k \in 1..Len(reports) :
         /\ reports[k].len \in OffendingPositions
         /\ reports[k].token_id = token_ids[reports[k].len]
         /\ \A j \in 1..(k - 1) : reports[j].len < reports[k].len
    /\ \A i \in 1..Len(fed) : fed[i].token_id = token_ids[i]

\* C2 witness: a returned scan of three tokens with one offending token in the
\* middle and none at the end
C2_Witness ==
  /\ det_pc = "returned"
  /\ ~cb_raised
  /\ Len(token_ids) = 3
  /\ OffendingPositions = {2}
  /\ Len(reports) = 1

\* C3: the first token of a text never reaches the callback, whatever it is.
C3_FirstTokenNeverReported ==
  \A k \in 1..Len(reports) : reports[k].len >= 2

\* C3 witness: a scan by a trained model whose first token is the unknown id and
\* whose second token was reported
C3_Witness ==
  /\ weights.trained
  /\ Len(sequence) >= 2
  /\ token_ids[1] = 1
  /\ Len(reports) = 1
  /\ reports[1].len = 2

\* C4 (the claim as stated): a report the callback keeps still reads the sequence
\* up to and including its offending token, and the prediction set in force at
\* its call, whatever detect_anomalies has consumed since.
C4_ReportIsSnapshot ==
  \A k \in 1..Len(reports) :
    /\ RetainedSequence(k) = SubSeq(token_ids, 1, reports[k].len)
    /\ RetainedPredicted(k) = fed[reports[k].len - 1].predicted_token_ids

\* C5: a detect_anomalies that returns has called the model once per token of the
\* text, in token order, each call with the hidden state the call before it
\* returned and the first with None.
C5_OneModelCallPerToken ==
  det_pc = "returned" =>
    /\ Len(token_ids) = Len(text)
    /\ Len(fed) = Len(token_ids)
    /\ \A i \in 1..Len(fed) :
         /\ fed[i].token_id = token_ids[i]
         /\ fed[i].states_in =
              IF i = 1 THEN None ELSE Some(fed[i - 1].states_out)

\* C5 witness: a returned scan of three tokens, one of them reported
C5_Witness ==
  /\ det_pc = "returned"
  /\ Len(text) = 3
  /\ Len(fed) = 3
  /\ Len(reports) >= 1

\* C6: once the callback has raised, the exception has left detect_anomalies: the
\* offending token (the last of the sequence) was not fed to the model, and no
\* further token is consumed and no further callback made.
C6_RaisingCallbackAbortsScan ==
  cb_raised =>
    /\ det_pc = "raised"
    /\ Len(reports) >= 1
    /\ reports[Len(reports)].len = Len(sequence)
    /\ Len(fed) = Len(sequence) - 1
    /\ ~ENABLED ScanToken /\ ~ENABLED ScanAnomaly /\ ~ENABLED ScanAnomalyRaises
    /\ ~ENABLED DetectReturn

\* C6 witness: the callback raised on the second token of a three-token text
C6_Witness ==
  /\ cb_raised
  /\ Len(token_ids) = 3
  /\ Len(sequence) = 2

\* C7: a scan that returns yields the same reports (sequences, offending tokens,
\* predicted ids, in order) as any earlier returned scan of the same text.
C7_SameTextSameReports ==
  (det_pc = "returned" /\ remembered # None /\ Value(remembered).text = text) =>
     Value(remembered).reports = ReportsAsReceived

\* C7 witness: a text with a report was scanned again after a scan of another text
C7_Witness ==
  /\ det_pc = "returned"
  /\ remembered # None
  /\ Value(remembered).text = text
  /\ Len(Value(remembered).reports) >= 1
  /\ Len(text) = 3

\* A text that generate_bt_log can return from a new generator under a table: the
\* devices' initial states, then events each of which a __call__ can yield after
\* the ones before it
IsGeneratedLog(table, txt) ==
  LET N == Len(new_bt_log_gen)
      RECURSIVE Replays(_, _)
      Replays(device_list, evs) ==
        \/ evs = <<>>
        \/ \E device_id \in 0..(Len(device_list) - 1) :
             \E pick \in _pick_new_state(table, device_list[device_id + 1].state_index) :
               LET r == CallResult(device_list, device_id, pick)
               IN  r.event = Head(evs) /\ Replays(r.device_list, Tail(evs))
  IN  /\ Len(txt) >= N
      /\ SubSeq(txt, 1, N) = DeviceStatesOf(new_bt_log_gen)
      /\ Replays(new_bt_log_gen, SubSeq(txt, N + 1, Len(txt)))

\* The record a token id stands for in the vocabulary of text_vectorizer
Decoded(token_id) == Vocabulary[token_id + 1]

\* C21: a scan of the text that ends 1-call_app, 1-disconnected by a detector
\* trained on logs of the first table (which has no call_app -> disconnected)
\* calls the callback at least once, and for a token that stands for device 1's
\* record of the state "disconnected".
C21_ProbeIsReportedByDetectorOfFirstTable ==
  (/\ det_pc \in {"returned", "raised"}
   /\ text = bt_log_data_call_app_disconnected
   /\ weights = TrainedOn(InitialTransitions)) =>
     /\ Len(reports) >= 1
     /\ \E k \in 1..Len(reports) :
          /\ Decoded(reports[k].token_id) \in DOMAIN EventParse
          /\ EventStateName(Decoded(reports[k].token_id)) = "disconnected"
          /\ reports[k].len = Len(text)

\* C21 witness: the scan of that text by that detector has returned with its one
\* report
C21_Witness ==
  /\ det_pc = "returned"
  /\ text = bt_log_data_call_app_disconnected
  /\ weights = TrainedOn(InitialTransitions)
  /\ Len(reports) = 1
  /\ Decoded(reports[1].token_id) = "1-disconnected"

C26_ReportDoesNotResetTheScan ==
  ~cb_raised =>
    /\ Len(fed) = Len(sequence)
    /\ \A k \in 1..Len(reports) :
         LET i == reports[k].len
         IN  /\ i >= 2
             /\ fed[i].token_id = reports[k].token_id
             /\ fed[i].states_in = Some(fed[i - 1].states_out)
             /\ fed[i].states_out =
                  SequenceModel(Vocabulary, weights, token_ids[i],
                                Some(fed[i - 1].states_out)).states
             /\ fed[i].predicted_token_ids =
                  PredictedTokenIds(
                    SequenceModel(Vocabulary, weights, token_ids[i],
                                  Some(fed[i - 1].states_out)).predictions)
             /\ i = Len(fed) => predicted_token_ids = fed[i].predicted_token_ids
             /\ (i < Len(fed) /\ token_ids[i + 1] \in Range(fed[i].predicted_token_ids))
                  => \A j \in 1..Len(reports) : reports[j].len # i + 1

\* C26 witness: the second token of a text was reported, and the third, which the
\* model allows after the second, was not
C26_Witness ==
  /\ det_pc = "returned"
  /\ ~cb_raised
  /\ weights = TrainedOn(CorrectedTransitions)
  /\ text = <<"0-disconnected", "0-call_app", "0-disconnected">>
  /\ Len(reports) = 1
  /\ reports[1].len = 2

\* C18: a token id is in the prediction set only if its predicted probability is
\* strictly greater than NEXT_TOKEN_PROB_THRESHOLD, and a next token whose
\* predicted probability equals the threshold is outside the set, so that the
\* scan reports it.
C18_PredictionSetStrictlyOverThreshold ==
  predictions # None =>
    /\ \A id \in Range(predicted_token_ids) :
         Value(predictions)[id] > NEXT_TOKEN_PROB_THRESHOLD
    /\ (det_pc = "loop" /\ Len(sequence) < Len(token_ids)) =>
         LET token_id == token_ids[Len(sequence) + 1]
         IN  Value(predictions)[token_id] = NEXT_TOKEN_PROB_THRESHOLD =>
               IsAnomaly(predictions, token_id, predicted_token_ids)

\* The prediction set as the code computes it: exactly the ids whose probability
\* is at or over the threshold
C18_PredictionSetAtOrOverThreshold ==
  predictions # None =>
    Range(predicted_token_ids) =
      {id \in 0..(vocabulary_size - 1) :
         Value(predictions)[id] >= NEXT_TOKEN_PROB_THRESHOLD}

-----------------------------------------------------------------------------
(* Properties of to_dataset *)

\* The windows of the returned dataset, in dataset order
Windows ==
  LET RECURSIVE Flatten(_)
      Flatten(batches) ==
        IF batches = <<>> THEN <<>> ELSE Head(batches) \o Flatten(Tail(batches))
  IN  Flatten(dataset)

\* The k-th block (k from 0) of the sequence: tokens k*(L+1) .. k*(L+1)+L.  The
\* blocks of distinct k share no position, and block k lies within the first
\* (k+1)*(L+1) tokens
BlockTokens(k) ==
  SubSeq(ds_sequence, k * (SEQUENCE_LENGTH + 1) + 1,
         k * (SEQUENCE_LENGTH + 1) + SEQUENCE_LENGTH + 1)

\* C9: to_dataset over n tokens with window length L yields floor(n / (L+1))
\* windows, one for each block k < floor(n / (L+1)) and built from tokens
\* k*(L+1) .. k*(L+1)+L: the input is the first L of them and the target the last
\* L; windows come in block order unless shuffled; so no token past the last whole
\* block is in any window.
C9_WindowsAreTheWholeBlocks ==
  ds_pc = "built" =>
    LET nb == Len(ds_sequence) \div (SEQUENCE_LENGTH + 1)
    IN  /\ Len(Windows) = nb
        /\ \E f \in Orders(nb) :
             /\ ~ds_shuffle => \A j \in 1..nb : f[j] = j
             /\ \A j \in 1..nb :
                  /\ Windows[j].input =
                       SubSeq(BlockTokens(f[j] - 1), 1, SEQUENCE_LENGTH)
                  /\ Windows[j].target =
                       SubSeq(BlockTokens(f[j] - 1), 2, SEQUENCE_LENGTH + 1)

\* C9 witness: a shuffled dataset of two different windows that come in the
\* reverse of block order, from a sequence with trailing tokens
C9_Witness ==
  /\ ds_pc = "built"
  /\ ds_shuffle
  /\ SEQUENCE_LENGTH = 2
  /\ Len(ds_sequence) % (SEQUENCE_LENGTH + 1) # 0
  /\ Len(Windows) = 2
  /\ Windows[1].input = SubSeq(BlockTokens(1), 1, SEQUENCE_LENGTH)
  /\ Windows[1] # Windows[2]

\* C10: in every window of the dataset the input and the target have the same
\* length, and target[i] = input[i+1] for every i that has a next position.
C10_TargetIsInputShiftedByOne ==
  \A j \in 1..Len(Windows) :
    /\ Len(Windows[j].input) = Len(Windows[j].target)
    /\ Len(Windows[j].input) = SEQUENCE_LENGTH
    /\ \A i \in 1..(Len(Windows[j].input) - 1) :
         Windows[j].target[i] = Windows[j].input[i + 1]

\* C10 witness: a window of length 2 whose two input tokens differ
C10_Witness ==
  /\ ds_pc = "built"
  /\ Len(Windows) >= 1
  /\ Len(Windows[1].input) = 2
  /\ Windows[1].input[1] # Windows[1].input[2]

-----------------------------------------------------------------------------
(* Properties of training *)

\* The lowest validation loss of the passes 1..i of the running fit
MinLoss(i) ==
  CHOOSE m \in {val_loss[j] : j \in 1..i} : \A j \in 1..i : m <= val_loss[j]

\* Pass i did not improve on the best loss of the passes before it
FailedToImprove(i) == i > 1 /\ val_loss[i] >= MinLoss(i - 1)

\* The number of consecutive passes, ending with pass i, that failed to improve
Streak(i) ==
  LET improved == CHOOSE j \in 1..i :
                    ~FailedToImprove(j) /\ \A k \in (j + 1)..i : FailedToImprove(k)
  IN  i - improved

\* The pass that achieved the best validation loss of the fit (the first to)
BestPass ==
  CHOOSE j \in 1..Len(val_loss) :
    /\ val_loss[j] = MinLoss(Len(val_loss))
    /\ \A k \in 1..(j - 1) : val_loss[k] > val_loss[j]

\* C13: no pass is run after a pass at which the validation loss has failed to
\* improve on the best seen for EARLY_STOP_PATIENCE consecutive passes; at that pass
\* training stops, and the model then holds the parameters of the pass that
\* achieved the best validation loss, not those of a later pass.
C13_EarlyStopRestoresBestPass ==
  /\ \A i \in 1..(Len(val_loss) - 1) : Streak(i) < EARLY_STOP_PATIENCE
  /\ (Len(val_loss) >= 1 /\ Streak(Len(val_loss)) >= EARLY_STOP_PATIENCE) =>
       /\ stop_training
       /\ params = BestPass
       /\ stopped_epoch + 1 = Len(val_loss)
  /\ stop_training =>
       Len(val_loss) >= 1 /\ Streak(Len(val_loss)) = EARLY_STOP_PATIENCE

\* C13 witness: a fit stopped early at its fourth pass and was rolled back to its
\* second, the best
C13_Witness ==
  /\ fit_pc = "ended"
  /\ stop_training
  /\ Len(val_loss) = 4
  /\ EPOCHS = 4
  /\ params = 2
  /\ BestPass = 2

\* C14 (the claim as stated): a fit that ran its EPOCHS passes without the early
\* stop firing has ended, and the model holds the parameters of a pass with the
\* lowest validation loss of the fit.
C14_EpochCapLeavesBestPass ==
  (fit_pc = "ended" /\ ~stop_training) =>
     /\ Len(val_loss) = EPOCHS
     /\ params \in 1..Len(val_loss)
     /\ val_loss[params] = MinLoss(Len(val_loss))

\* The part of C14 that the code keeps: reaching EPOCHS ends the fit normally, with
\* the parameters of the last pass
C14_EpochCapEndsFit ==
  (fit_pc = "ended" /\ ~stop_training) =>
     /\ Len(val_loss) = EPOCHS
     /\ params = EPOCHS

-----------------------------------------------------------------------------
(* Properties of the notebook's cells *)

\* The train calls of a stage, by position in train_calls
CallsOfStage(stage) == {k \in 1..Len(train_calls) : train_calls[k].stage = stage}

\* C15 (the claim as stated): in every stage, initial or incremental, train runs
\* only if no model file exists at that moment.
C15_TrainOnlyWithoutModelFile ==
  \A k \in 1..Len(train_calls) : ~train_calls[k].file_existed

\* C15 (amended): the initial training cell calls train only if no model file
\* exists at that moment, and exactly once if none does; every incremental cell
\* calls train once, and the model file exists whenever it does.
C15_OnlyInitialTrainingIsSkipped ==
  /\ \A k \in CallsOfStage("initial") : ~train_calls[k].file_existed
  /\ \A k \in CallsOfStage("incremental") : train_calls[k].file_existed
  /\ Cardinality(CallsOfStage("incremental")) = cycles
  /\ Cardinality(CallsOfStage("initial")) <= 1
  /\ nb_pc = "analyzer" =>
       (Cardinality(CallsOfStage("initial")) = 1 <=> model_file = None)

\* C15 witness: in a session that found a model file the initial training was
\* skipped and the incremental cell trained
C15_Witness ==
  /\ cycles = 1
  /\ Len(train_calls) = 1
  /\ train_calls[1].stage = "incremental"
  /\ train_calls[1].file_existed

\* C19: text_vectorizer.adapt is called once, and once the vocabulary is built no
\* cell changes it: the new-log cell, the model and training cells, the analyzer
\* cell, test_for_anomalies, the corrective action and every incremental cell
\* leave the list of records, and so every record's id and the vocabulary size,
\* as adapt left them.
C19_VocabularyFrozenAfterAdapt ==
  [][/\ vocabulary # None => vocabulary' = vocabulary
     /\ adapt_calls' # adapt_calls =>
          (vocabulary = None /\ adapt_calls = 0 /\ adapt_calls' = 1
             /\ vocabulary' = AdaptVocabulary(bt_log_data))]_vars

\* C19 witness: an incremental cell vectorized a log that holds a record the
\* vocabulary does not (it got the id of "[UNK]"), and the vocabulary is still the
\* one adapt built from the first log
C19_Witness ==
  /\ cycles = 1
  /\ adapt_calls = 1
  /\ vocabulary # None
  /\ \E i \in 1..Len(bt_log_data) : bt_log_data[i] \notin Range(vocabulary)
  /\ 1 \in Range(bt_log_sequence)
  /\ Len(vocabulary) = 2 + BT_DEVICE_COUNT + 1

-----------------------------------------------------------------------------
(* Properties of the corrective loop *)

\* The detect_anomalies calls of the latest test_for_anomalies
LastTest ==
  test_for_anomalies(Value(last_test).vocabulary, Value(last_test).weights,
                     Value(last_test).log, on_anomaly_detected = "raises")

\* The ids over the threshold after the analyzer has been fed the records of txt
PredictionSetAfter(vocab, w, txt) ==
  LET ids == VectorizeWith(vocab, txt)
      RECURSIVE Fed(_, _)
      Fed(i, st) ==
        LET out == SequenceModel(vocab, w, ids[i], st)
        IN  IF i = Len(ids) THEN PredictedTokenIds(out.predictions)
            ELSE Fed(i + 1, Some(out.states))
  IN  Fed(1, None)

\* The table has call_app -> disconnected
Corrected == Count(BT_STATE_TRANSITIONS["call_app"], "disconnected") > 0

\* The latest train call was of an incremental cell and left a model that learnt
\* the table of this moment
Retrained ==
  /\ train_calls # <<>>
  /\ train_calls[Len(train_calls)].stage = "incremental"
  /\ train_calls[Len(train_calls)].left = TrainedOn(BT_STATE_TRANSITIONS)

C29_FileHoldsTheLatestTraining ==
  (nb_pc = "incremental" /\ train_calls # <<>> /\ model_file # None) =>
    Value(model_file).weights = train_calls[Len(train_calls)].left

\* The same when the callback is the notebook's, which returns
C29_HoldsWhenTheCallbackReturns ==
  on_anomaly_detected = "prints" => C29_FileHoldsTheLatestTraining


\* C12 (the claim as stated): an empty device list, an empty transition table and
\* a zero window length are each rejected at construction: with an empty device
\* list there is never a generator object, with an empty table the generator is
\* never built (so no step is tried and none fails), and with a zero window
\* length no dataset is ever returned.
C12_ConfigurationErrorsFailFast ==
  /\ generators["bt_log_gen"] = <<>> => gen_pc \in {"unbuilt", "rejected"}
  /\ DOMAIN BT_STATE_TRANSITIONS = {} => gen_pc \in {"unbuilt", "rejected"}
  /\ SEQUENCE_LENGTH = 0 => ds_pc # "built"

\* The part of C12 that the code keeps: no generator object over an empty list
C12_EmptyDeviceListRejected ==
  generators["bt_log_gen"] = <<>> => gen_pc \in {"unbuilt", "rejected"}

\* The late failure of an empty table: a step of generate_bt_log raised
C12_EmptyTableNeverRaisesLate ==
  DOMAIN BT_STATE_TRANSITIONS = {} => gen_pc # "raised"

-----------------------------------------------------------------------------
(* Properties of the train/validation split *)

\* The tokens of the windows of a dataset (inputs and targets)
RECURSIVE FlattenBatches(_)
FlattenBatches(batches) ==
  IF batches = <<>> THEN <<>> ELSE Head(batches) \o FlattenBatches(Tail(batches))

WindowTokens(ds) ==
  UNION {Range(FlattenBatches(ds)[j].input) \cup Range(FlattenBatches(ds)[j].target) :
           j \in 1..Len(FlattenBatches(ds))}

\* C11 (the claim as stated): with holdout size K the training sequence is the
\* sequence without its last K tokens and the validation sequence is its last K
\* tokens (all of them when it has fewer); the two hold every token once, and no
\* window of either dataset holds a token of the other side.
C11_SplitHoldsOutLastK ==
  split_pc = "built" =>
    LET n    == Len(bt_log_sequence)
        kept == IF VALIDATION_SPLIT > n THEN 0 ELSE n - VALIDATION_SPLIT
    IN  /\ train_sequence = SubSeq(bt_log_sequence, 1, kept)
        /\ valid_sequence = SubSeq(bt_log_sequence, kept + 1, n)
        /\ train_sequence \o valid_sequence = bt_log_sequence
        /\ WindowTokens(train_ds) \subseteq Range(SubSeq(bt_log_sequence, 1, kept))
        /\ WindowTokens(valid_ds) \subseteq Range(SubSeq(bt_log_sequence, kept + 1, n))

\* The same with a holdout of at least one token
C11_SplitWithPositiveHoldout ==
  VALIDATION_SPLIT >= 1 => C11_SplitHoldsOutLastK

=============================================================================
